---- MODULE Spec2Model ----
(***************************************************************************)
(* A model of alma-sapinvoices: the invoice parser (sapinvoices/sap.py),   *)
(* the paged retrieval of the Alma client (sapinvoices/alma.py) and the    *)
(* process_invoices command (sapinvoices/cli.py) with the run state        *)
(* machine it drives.                                                      *)
(*                                                                         *)
(* Python str values are sequences of one-character strings, so that       *)
(* endswith, split, strip, len, int and str are computed and not assumed.  *)
(* Python dicts are functions from keys (TLA+ strings) to values; a        *)
(* missing key is a key outside DOMAIN.  Amounts are integers (cents).     *)
(***************************************************************************)
EXTENDS Integers, Sequences, FiniteSets, TLC

(***************************************************************************)
(* Bounds of the model.                                                    *)
(***************************************************************************)
\* most invoices waiting to be sent upstream in one scenario
MaxInvoices == 2
\* longest record list handed to parse_invoice_records on its own
MaxRecords == 2
\* most records upstream holds for a paged endpoint
MaxTotal == 6
\* largest page size (limit) asked of a paged endpoint
MaxLimit == 3
\* most page requests of one call of get_paged: each request is made one
\* level of recursion deeper, and the interpreter's recursion limit (1000 by
\* default) ends a call that has gone this deep with RecursionError
MaxRequests == 7
\* most fund distributions of a record handed to populate_fund_data on its own
MaxDistributions == 3
\* most addresses of a vendor record handed to determine_vendor_payment_address
MaxAddresses == 3
\* longest text in a field of an invoice handed to check_for_multibyte
MaxTextLen == 2
\* most invoices handed to split_invoices_by_field_value on its own
MaxItems == 4
\* most invoices handed to generate_sap_data on its own
MaxSapInvoices == 3
\* most fund allocations of one of those invoices
MaxFunds == 3
\* most digits of a sequence number handed to update_sap_sequence on its own
MaxSequenceLen == 4

(***************************************************************************)
(* Python str, int and dict helpers.                                       *)
(***************************************************************************)
None == <<"<None>">>

Digits == <<"0", "1", "2", "3", "4", "5", "6", "7", "8", "9">>

Upper == <<"A", "B", "C", "D", "E", "F", "G", "H", "I", "J", "K", "L", "M",
           "N", "O", "P", "Q", "R", "S", "T", "U", "V", "W", "X", "Y", "Z">>

Lower == <<"a", "b", "c", "d", "e", "f", "g", "h", "i", "j", "k", "l", "m",
           "n", "o", "p", "q", "r", "s", "t", "u", "v", "w", "x", "y", "z">>

IndexIn(seq, c) == CHOOSE i \in 1..Len(seq) : seq[i] = c

IsIn(seq, c) == \E i \in 1..Len(seq) : seq[i] = c

IsDigit(c) == IsIn(Digits, c)

DigitVal(c) == IndexIn(Digits, c) - 1

\* ord(c): the Unicode code point of a character of the model's alphabet.
\* "U+00E9" stands for the character e-acute, "U+2011" for the non-breaking
\* hyphen of the test fixtures.
CodePoint(c) ==
    CASE c = " " -> 32
      [] c = "\n" -> 10
      [] c = "-" -> 45
      [] c = "." -> 46
      [] IsDigit(c) -> 48 + DigitVal(c)
      [] IsIn(Upper, c) -> 64 + IndexIn(Upper, c)
      [] IsIn(Lower, c) -> 96 + IndexIn(Lower, c)
      [] c = "U+00E9" -> 233
      [] c = "U+2011" -> 8209

\* len(char.encode("utf-8"))
UTF8Len(c) ==
    IF CodePoint(c) < 128 THEN 1
    ELSE IF CodePoint(c) < 2048 THEN 2
    ELSE IF CodePoint(c) < 65536 THEN 3
    ELSE 4

\* a < b for Python strings: lexicographic by code point
RECURSIVE StrLess(_, _)
StrLess(a, b) ==
    IF Len(b) = 0 THEN FALSE
    ELSE IF Len(a) = 0 THEN TRUE
    ELSE IF CodePoint(a[1]) < CodePoint(b[1]) THEN TRUE
    ELSE IF CodePoint(a[1]) > CodePoint(b[1]) THEN FALSE
    ELSE StrLess(Tail(a), Tail(b))

\* s.endswith(suffix)
EndsWith(s, suffix) ==
    /\ Len(s) >= Len(suffix)
    /\ SubSeq(s, Len(s) - Len(suffix) + 1, Len(s)) = suffix

\* s.strip(): leading and trailing blanks removed
RECURSIVE LStrip(_)
LStrip(s) == IF Len(s) > 0 /\ s[1] = " " THEN LStrip(Tail(s)) ELSE s

RECURSIVE RStrip(_)
RStrip(s) ==
    IF Len(s) > 0 /\ s[Len(s)] = " " THEN RStrip(SubSeq(s, 1, Len(s) - 1)) ELSE s

Strip(s) == RStrip(LStrip(s))

\* s.split(d) for a one-character delimiter d: the list of the parts
RECURSIVE SplitFrom(_, _, _)
SplitFrom(s, d, part) ==
    IF Len(s) = 0 THEN <<part>>
    ELSE IF s[1] = d THEN <<part>> \o SplitFrom(Tail(s), d, <<>>)
    ELSE SplitFrom(Tail(s), d, Append(part, s[1]))

Split(s, d) == SplitFrom(s, d, <<>>)

\* int(s) is defined for a non-empty string of decimal digits (leading zeros
\* allowed); on any other string of the model it raises ValueError
IsNumeric(s) == Len(s) > 0 /\ \A i \in 1..Len(s) : IsDigit(s[i])

RECURSIVE IntOf(_)
IntOf(s) ==
    IF Len(s) = 0 THEN 0
    ELSE IntOf(SubSeq(s, 1, Len(s) - 1)) * 10 + DigitVal(s[Len(s)])

\* str(n) for n >= 0: no padding, no leading zeros
RECURSIVE StrOf(_)
StrOf(n) ==
    IF n < 10 THEN <<Digits[n + 1]>>
    ELSE StrOf(n \div 10) \o <<Digits[(n % 10) + 1]>>

\* d.get(k) / d.get(k, default)
Get(d, k, default) == IF k \in DOMAIN d THEN d[k] ELSE default

\* the dict d with d[k] = v set
Put(d, k, v) == (k :> v) @@ d

Range(seq) == {seq[i] : i \in 1..Len(seq)}

RECURSIVE SumSeq(_)
SumSeq(seq) == IF Len(seq) = 0 THEN 0 ELSE seq[1] + SumSeq(Tail(seq))

(***************************************************************************)
(* String literals of the source.                                          *)
(***************************************************************************)
ACCOUNTINGDEPARTMENT ==
    <<"A", "C", "C", "O", "U", "N", "T", "I", "N", "G",
      "D", "E", "P", "A", "R", "T", "M", "E", "N", "T">>

CORRECTION == <<"C", "O", "R", "R">>

monograph == <<"m", "o", "n", "o", "g", "r", "a", "p", "h">>

serial == <<"s", "e", "r", "i", "a", "l">>

payment == <<"p", "a", "y", "m", "e", "n", "t">>

order == <<"o", "r", "d", "e", "r">>

USD == <<"U", "S", "D">>

\* config/countries.json: the country -> SAP country code table
COUNTRIES ==
    (<<"U", "S", "A">> :> <<"U", "S">>) @@ (<<"G", "B", "R">> :> <<"G", "B">>)

(***************************************************************************)
(* Upstream (Alma): the vendor and fund records the API answers with.      *)
(***************************************************************************)
VAAA == <<"A", "A", "A">>
VS == <<"V", "-", "S">>
VNOA == <<"N", "O", "A">>
VNL == <<"N", "L">>

\* acq/vendors/{code}
AlmaVendors ==
    (VAAA :>
        [name |-> <<"A", "c", "m", "e">>,
         contact_info |->
            [address |->
               << [address_type |-> << [value |-> order, desc |-> <<"O">>] >>,
                   line1 |-> <<"1", " ", "R", "d">>,
                   city |-> <<"E", "l", "y">>],
                  [address_type |-> << [value |-> <<"c">>, desc |-> <<"C">>],
                                       [value |-> payment, desc |-> <<"P">>] >>,
                   line1 |-> <<"P", "O", " ", "7">>,
                   line2 |-> <<"F", "l", " ", "2">>,
                   line3 |-> None,
                   city |-> <<"B", "a", "t", "h">>,
                   state_province |-> <<"M", "A">>,
                   postal_code |-> <<"0", "2", "1">>,
                   country |-> [value |-> <<"U", "S", "A">>]] >>]])
    @@
    (VS :>
        [name |-> <<"V", "s">>,
         contact_info |->
            [address |->
               << [address_type |-> << [value |-> order, desc |-> <<"O">>] >>,
                   line1 |-> <<"a">>,
                   line2 |-> <<"b">>,
                   line3 |-> <<"c">>,
                   line4 |-> <<"d">>,
                   city |-> None,
                   country |-> [value |-> <<"X", "X">>]] >>]])
    @@
    (VNOA :>
        [name |-> <<"N", "o">>,
         contact_info |-> [address |-> << >>]])
    @@
    (VNL :>
        [name |-> <<"N", "l">>,
         contact_info |->
            [address |->
               << [address_type |-> << [value |-> payment, desc |-> <<"P">>] >>,
                   city |-> <<"R", "o", "m", "e">>,
                   country |-> [value |-> <<"G", "B", "R">>]] >>]])

F0 == <<"F", "0">>
F1 == <<"F", "1">>
F2 == <<"F", "2">>
F3 == <<"F", "3">>
FX == <<"F", "X">>
FY == <<"F", "Y">>

\* acq/funds?q=fund_code~{code}
AlmaFunds ==
    (F0 :> [total_record_count |-> 1,
            fund |-> << [external_id |-> <<"1", "1", "-", "9">>] >>])
    @@
    (F1 :> [total_record_count |-> 1,
            fund |-> << [external_id |-> <<"1", "2", "-", "3">>] >>])
    @@
    (F2 :> [total_record_count |-> 1,
            fund |-> << [external_id |-> <<"1", "2", "-", "4">>] >>])
    @@
    (F3 :> [total_record_count |-> 1,
            fund |-> << [external_id |-> <<" ", "1", "2", "-", "3", " ">>] >>])
    @@
    (FX :> [total_record_count |-> 0])
    @@
    (FY :> [total_record_count |-> 0])

\* AlmaClient.get_vendor_details
get_vendor_details(vendor_code) == AlmaVendors[vendor_code]

\* AlmaClient.get_fund_by_code
get_fund_by_code(fund_code) == AlmaFunds[fund_code]

(***************************************************************************)
(* Upstream: the raw invoice records.                                      *)
(***************************************************************************)
FundDist(code, amount) == [fund_code |-> [value |-> code], amount |-> amount]

RawInvoice(id, number, vendor_code, method, total, lines) ==
    [id |-> id,
     number |-> number,
     invoice_date |-> <<"2", "0", "2", "1", "-", "0", "9", "-", "2", "7", "Z">>,
     vendor |-> [value |-> vendor_code],
     payment_method |-> [value |-> method],
     total_amount |-> total,
     currency |-> [value |-> USD],
     invoice_lines |->
        [invoice_line |->
            [i \in 1..Len(lines) |-> [fund_distribution |-> lines[i]]]]]

\* clean, monograph, SAP-eligible; F1 and F3 share one external id
R01 == RawInvoice(<<"0", "1">>, <<"N", "1">>, VAAA, ACCOUNTINGDEPARTMENT, 3000,
                  << <<FundDist(F1, 1000), FundDist(F2, 1500)>>,
                     <<FundDist(F3, 500)>> >>)

\* clean, monograph, another payment method
R02 == RawInvoice(<<"0", "2">>, <<"N", "0">>, VAAA, CORRECTION, 700,
                  << <<FundDist(F1, 700)>> >>)

\* clean, serial, SAP-eligible
R03 == RawInvoice(<<"0", "3">>, <<"N", "3">>, VS, ACCOUNTINGDEPARTMENT, 2000,
                  << <<FundDist(F2, 1200), FundDist(F0, 800)>> >>)

\* the vendor has no address
R04 == RawInvoice(<<"0", "4">>, <<"N", "4">>, VNOA, ACCOUNTINGDEPARTMENT, 400,
                  << <<FundDist(F1, 400)>> >>)

\* a fund upstream does not find, referenced by two lines; serial
R05 == RawInvoice(<<"0", "5">>, <<"N", "5">>, VS, ACCOUNTINGDEPARTMENT, 600,
                  << <<FundDist(FX, 300), FundDist(F1, 200)>>,
                     <<FundDist(FX, 100)>> >>)

\* a multi-byte character in the invoice number
R06 == RawInvoice(<<"0", "6">>, <<"N", "U+00E9">>, VAAA, ACCOUNTINGDEPARTMENT, 900,
                  << <<FundDist(F2, 900)>> >>)

\* the vendor's address has no address line
R07 == RawInvoice(<<"0", "7">>, <<"N", "7">>, VNL, ACCOUNTINGDEPARTMENT, 100,
                  << <<FundDist(F0, 100)>> >>)

\* no address and two funds not found
R08 == RawInvoice(<<"0", "8">>, <<"N", "8">>, VNOA, CORRECTION, 800,
                  << <<FundDist(FY, 300), FundDist(FX, 500)>> >>)

\* a record without the mandatory currency field
R09 == [f \in (DOMAIN R02) \ {"currency"} |->
            IF f = "id" THEN <<"0", "9">>
            ELSE IF f = "number" THEN <<"N", "9">>
            ELSE R02[f]]

Catalogue == <<R01, R02, R03, R04, R05, R06, R07, R08, R09>>

(***************************************************************************)
(* sap.py: the invoice parser.  An operator that can raise returns a       *)
(* record whose field err names the exception ("none" when it returns).    *)
(***************************************************************************)
\* get_purchase_type
get_purchase_type(vendor_code) ==
    IF EndsWith(vendor_code, <<"-", "S">>) THEN serial ELSE monograph

\* datetime.strptime(s, "%Y-%m-%dZ"), on a string of that form
strptime(s) ==
    [year |-> SubSeq(s, 1, 4), month |-> SubSeq(s, 6, 7), day |-> SubSeq(s, 9, 10)]

\* date.strftime("%y%m%d")
strftime_ymd(date) == SubSeq(date.year, 3, 4) \o date.month \o date.day

\* date.strftime("%Y%m%d")
strftime_Ymd(date) == date.year \o date.month \o date.day

\* the keys extract_invoice_data reads; a record lacking one raises KeyError
HasMandatoryFields(invoice_record) ==
    /\ {"vendor", "invoice_date", "id", "number", "payment_method",
        "total_amount", "currency"} \subseteq DOMAIN invoice_record
    /\ "value" \in DOMAIN invoice_record["vendor"]
    /\ "value" \in DOMAIN invoice_record["payment_method"]
    /\ "value" \in DOMAIN invoice_record["currency"]

\* extract_invoice_data, for a record that has the mandatory fields
extract_invoice_data(invoice_record) ==
    ("date" :> strptime(invoice_record["invoice_date"]))
    @@ ("id" :> invoice_record["id"])
    @@ ("number" :> invoice_record["number"])
    @@ ("type" :> get_purchase_type(invoice_record["vendor"]["value"]))
    @@ ("payment method" :> invoice_record["payment_method"]["value"])
    @@ ("total amount" :> invoice_record["total_amount"])
    @@ ("currency" :> invoice_record["currency"]["value"])

\* IsPaymentAddress that looks at the first address type only
IsPaymentAddress_first_type(address) ==
    /\ Len(address["address_type"]) > 0
    /\ \E k \in DOMAIN address["address_type"][1] :
          address["address_type"][1][k] = payment

\* any("payment" in address_type.values() for address_type in address["address_type"])
IsPaymentAddress(address) ==
    \E i \in 1..Len(address["address_type"]) :
        \E k \in DOMAIN address["address_type"][i] :
            address["address_type"][i][k] = payment

\* the for loop of determine_vendor_payment_address from address i on:
\* an address without address_type raises KeyError at once
RECURSIVE FirstPaymentAddress(_, _)
FirstPaymentAddress(addresses, i) ==
    IF i > Len(addresses) THEN
        IF Len(addresses) = 0 THEN [err |-> "VendorAddressError"]
        ELSE [err |-> "none", address |-> addresses[1]]
    ELSE IF "address_type" \notin DOMAIN addresses[i] THEN
        [err |-> "VendorAddressError"]
    ELSE IF IsPaymentAddress(addresses[i]) THEN
        [err |-> "none", address |-> addresses[i]]
    ELSE FirstPaymentAddress(addresses, i + 1)

\* determine_vendor_payment_address
determine_vendor_payment_address(vendor_record) ==
    IF \/ "contact_info" \notin DOMAIN vendor_record
       \/ "address" \notin DOMAIN vendor_record["contact_info"]
    THEN [err |-> "VendorAddressError"]
    ELSE FirstPaymentAddress(vendor_record["contact_info"]["address"], 1)

\* address_lines_from_address
address_lines_from_address(address) ==
    LET line_names == <<"line1", "line2", "line3", "line4", "line5">>
        present(n) == Get(address, n, None) # None
        names == SelectSeq(line_names, present)
    IN  [i \in 1..Len(names) |-> address[names[i]]]

\* country_code_from_address
country_code_from_address(address) ==
    IF /\ "country" \in DOMAIN address
       /\ "value" \in DOMAIN address["country"]
       /\ address["country"]["value"] \in DOMAIN COUNTRIES
    THEN COUNTRIES[address["country"]["value"]]
    ELSE <<"U", "S">>

\* populate_vendor_data: one get_vendor_details request, then the address
populate_vendor_data(vendor_code) ==
    LET vendor_record == get_vendor_details(vendor_code)
        found == determine_vendor_payment_address(vendor_record)
    IN  IF found.err # "none" THEN [err |-> found.err]
        ELSE [err |-> "none",
              vendor |->
                ("name" :> vendor_record["name"])
                @@ ("code" :> vendor_code)
                @@ ("address" :>
                      (("lines" :> address_lines_from_address(found.address))
                       @@ ("city" :> Get(found.address, "city", None))
                       @@ ("state or province" :>
                             Get(found.address, "state_province", None))
                       @@ ("postal code" :> Get(found.address, "postal_code", None))
                       @@ ("country" :> country_code_from_address(found.address))))]

\* the fund distributions of a record, line after line
RECURSIVE FlattenLines(_)
FlattenLines(lines) ==
    IF Len(lines) = 0 THEN <<>>
    ELSE lines[1]["fund_distribution"] \o FlattenLines(Tail(lines))

\* sorted(keys): ascending by string comparison
RECURSIVE SortStrs(_)
SortStrs(S) ==
    IF S = {} THEN <<>>
    ELSE LET m == CHOOSE x \in S : \A y \in S \ {x} : StrLess(x, y)
         IN  <<m>> \o SortStrs(S \ {m})

\* collections.OrderedDict(sorted(fund_data.items())): the (key, value) items
SortedItems(d) ==
    LET keys == SortStrs(DOMAIN d)
    IN  [i \in 1..Len(keys) |-> <<keys[i], d[keys[i]]>>]

\* FundStep with = in the place of += for an external id met before
FundStep_replacing(st, fund_distribution) ==
    LET fund_code == fund_distribution["fund_code"]["value"]
        amount == fund_distribution["amount"]
        cached == fund_code \in DOMAIN st.retrieved_funds
        fund_record == IF cached THEN st.retrieved_funds[fund_code]
                       ELSE get_fund_by_code(fund_code)
        requests == IF cached THEN st.fund_requests
                    ELSE Append(st.fund_requests, fund_code)
    IN  IF ~cached /\ fund_record["total_record_count"] = 0 THEN
            [st EXCEPT !.fund_code_errors = Append(@, fund_code),
                       !.fund_requests = requests]
        ELSE
            LET funds == IF cached THEN st.retrieved_funds
                         ELSE Put(st.retrieved_funds, fund_code, fund_record)
                external_id == Strip(fund_record["fund"][1]["external_id"])
                parts == Split(external_id, "-")
            IN  IF external_id \in DOMAIN st.fund_data THEN
                    [st EXCEPT !.fund_data =
                                  Put(@, external_id,
                                      Put(@[external_id], "amount", amount)),
                               !.retrieved_funds = funds,
                               !.fund_requests = requests]
                ELSE IF Len(parts) < 2 THEN
                    [st EXCEPT !.err = "IndexError",
                               !.retrieved_funds = funds,
                               !.fund_requests = requests]
                ELSE
                    [st EXCEPT !.fund_data =
                                  Put(@, external_id,
                                      (("amount" :> amount)
                                       @@ ("cost object" :> parts[1])
                                       @@ ("G/L account" :> parts[2]))),
                               !.retrieved_funds = funds,
                               !.fund_requests = requests]

\* one turn of the inner loop of populate_fund_data.  st holds fund_data,
\* fund_code_errors, retrieved_funds, the get_fund_by_code requests made so far
\* and err
FundStep(st, fund_distribution) ==
    LET fund_code == fund_distribution["fund_code"]["value"]
        amount == fund_distribution["amount"]
        cached == fund_code \in DOMAIN st.retrieved_funds
        fund_record == IF cached THEN st.retrieved_funds[fund_code]
                       ELSE get_fund_by_code(fund_code)
        requests == IF cached THEN st.fund_requests
                    ELSE Append(st.fund_requests, fund_code)
    IN  IF ~cached /\ fund_record["total_record_count"] = 0 THEN
            [st EXCEPT !.fund_code_errors = Append(@, fund_code),
                       !.fund_requests = requests]
        ELSE
            LET funds == IF cached THEN st.retrieved_funds
                         ELSE Put(st.retrieved_funds, fund_code, fund_record)
                external_id == Strip(fund_record["fund"][1]["external_id"])
                parts == Split(external_id, "-")
            IN  IF external_id \in DOMAIN st.fund_data THEN
                    [st EXCEPT !.fund_data =
                                  Put(@, external_id,
                                      Put(@[external_id], "amount",
                                          @[external_id]["amount"] + amount)),
                               !.retrieved_funds = funds,
                               !.fund_requests = requests]
                ELSE IF Len(parts) < 2 THEN
                    [st EXCEPT !.err = "IndexError",
                               !.retrieved_funds = funds,
                               !.fund_requests = requests]
                ELSE
                    [st EXCEPT !.fund_data =
                                  Put(@, external_id,
                                      (("amount" :> amount)
                                       @@ ("cost object" :> parts[1])
                                       @@ ("G/L account" :> parts[2]))),
                               !.retrieved_funds = funds,
                               !.fund_requests = requests]

RECURSIVE FundLoop(_, _)
FundLoop(st, distributions) ==
    IF Len(distributions) = 0 \/ st.err # "none" THEN st
    ELSE FundLoop(FundStep(st, distributions[1]), Tail(distributions))

\* populate_fund_data: err is "FundError" (with fund_codes) when a code was not
\* found; retrieved_funds is the caller's dict, updated in place in every case
populate_fund_data(invoice_record, retrieved_funds, fund_requests) ==
    IF \/ "invoice_lines" \notin DOMAIN invoice_record
       \/ "invoice_line" \notin DOMAIN invoice_record["invoice_lines"]
    THEN [err |-> "KeyError", retrieved_funds |-> retrieved_funds,
          fund_requests |-> fund_requests]
    ELSE
        LET st == FundLoop([fund_data |-> << >>,
                            fund_code_errors |-> << >>,
                            retrieved_funds |-> retrieved_funds,
                            fund_requests |-> fund_requests,
                            err |-> "none"],
                           FlattenLines(invoice_record["invoice_lines"]["invoice_line"]))
        IN  IF st.err # "none" THEN
                [err |-> st.err, retrieved_funds |-> st.retrieved_funds,
                 fund_requests |-> st.fund_requests]
            ELSE IF Len(st.fund_code_errors) > 0 THEN
                [err |-> "FundError", fund_codes |-> st.fund_code_errors,
                 retrieved_funds |-> st.retrieved_funds,
                 fund_requests |-> st.fund_requests]
            ELSE
                [err |-> "none", funds |-> SortedItems(st.fund_data),
                 retrieved_funds |-> st.retrieved_funds,
                 fund_requests |-> st.fund_requests]

\* flatdict.FlatterDict(invoice).items() restricted to the str values, in
\* iteration order: pairs (path, value), a path being the list of the keys and
\* list indices that flatdict joins with ":"
StrLeaves(invoice) ==
    LET leaf(path, v) == IF v = None THEN <<>> ELSE << <<path, v>> >>
        key(k) == <<k>>
        vendor == invoice["vendor"]
        lines == vendor["address"]["lines"]
        RECURSIVE LineLeaves(_)
        LineLeaves(i) ==
            IF i > Len(lines) THEN <<>>
            ELSE leaf(<<key("vendor"), key("address"), key("lines"), StrOf(i - 1)>>,
                      lines[i])
                 \o LineLeaves(i + 1)
        RECURSIVE FundLeaves(_)
        FundLeaves(i) ==
            IF i > Len(invoice["funds"]) THEN <<>>
            ELSE leaf(<<key("funds"), invoice["funds"][i][1], key("cost object")>>,
                      invoice["funds"][i][2]["cost object"])
                 \o leaf(<<key("funds"), invoice["funds"][i][1], key("G/L account")>>,
                         invoice["funds"][i][2]["G/L account"])
                 \o FundLeaves(i + 1)
        RECURSIVE ErrorLeaves(_)
        ErrorLeaves(i) ==
            IF i > Len(invoice["fund_errors"]) THEN <<>>
            ELSE leaf(<<key("fund_errors"), StrOf(i - 1)>>, invoice["fund_errors"][i])
                 \o ErrorLeaves(i + 1)
    IN  leaf(<<key("id")>>, invoice["id"])
        \o leaf(<<key("number")>>, invoice["number"])
        \o leaf(<<key("type")>>, invoice["type"])
        \o leaf(<<key("payment method")>>, invoice["payment method"])
        \o leaf(<<key("currency")>>, invoice["currency"])
        \o (IF "vendor" \in DOMAIN invoice THEN
                leaf(<<key("vendor"), key("name")>>, vendor["name"])
                \o leaf(<<key("vendor"), key("code")>>, vendor["code"])
                \o LineLeaves(1)
                \o leaf(<<key("vendor"), key("address"), key("city")>>,
                        vendor["address"]["city"])
                \o leaf(<<key("vendor"), key("address"), key("state or province")>>,
                        vendor["address"]["state or province"])
                \o leaf(<<key("vendor"), key("address"), key("postal code")>>,
                        vendor["address"]["postal code"])
                \o leaf(<<key("vendor"), key("address"), key("country")>>,
                        vendor["address"]["country"])
            ELSE <<>>)
        \o (IF "vendor_address_error" \in DOMAIN invoice THEN
                leaf(<<key("vendor_address_error")>>, invoice["vendor_address_error"])
            ELSE <<>>)
        \o (IF "funds" \in DOMAIN invoice THEN FundLeaves(1) ELSE <<>>)
        \o (IF "fund_errors" \in DOMAIN invoice THEN ErrorLeaves(1) ELSE <<>>)

\* MultibyteIn that leaves the string at its first multi-byte character
RECURSIVE MultibyteIn_first_only(_, _, _)
MultibyteIn_first_only(path, value, i) ==
    IF i > Len(value) THEN <<>>
    ELSE IF UTF8Len(value[i]) > 1
    THEN << [field |-> path, character |-> value[i]] >>
    ELSE MultibyteIn_first_only(path, value, i + 1)

\* the multi-byte characters of one string value, each with the field's path
RECURSIVE MultibyteIn(_, _, _)
MultibyteIn(path, value, i) ==
    IF i > Len(value) THEN <<>>
    ELSE (IF UTF8Len(value[i]) > 1
          THEN << [field |-> path, character |-> value[i]] >>
          ELSE <<>>)
         \o MultibyteIn(path, value, i + 1)

\* check_for_multibyte
check_for_multibyte(invoice) ==
    LET leaves == StrLeaves(invoice)
        RECURSIVE Scan(_)
        Scan(i) ==
            IF i > Len(leaves) THEN <<>>
            ELSE MultibyteIn(leaves[i][1], leaves[i][2], 1) \o Scan(i + 1)
    IN  Scan(1)

\* IsProblem without the test for multibyte_errors
IsProblem_no_multibyte(invoice_data) ==
    \/ "vendor_address_error" \in DOMAIN invoice_data
    \/ "fund_errors" \in DOMAIN invoice_data

\* the test of parse_invoice_records that sends an invoice to problem_invoices
IsProblem(invoice_data) ==
    \/ "vendor_address_error" \in DOMAIN invoice_data
    \/ "multibyte_errors" \in DOMAIN invoice_data
    \/ "fund_errors" \in DOMAIN invoice_data

\* the state of one call of parse_invoice_records before its loop:
\* vendor_requests and fund_requests list the get_vendor_details and
\* get_fund_by_code requests the call has sent upstream
ParseStart ==
    [parsed_invoices |-> << >>,
     problem_invoices |-> << >>,
     retrieved_vendors |-> << >>,
     retrieved_funds |-> << >>,
     vendor_requests |-> << >>,
     fund_requests |-> << >>,
     err |-> "none"]

\* ResolveVendor without the assignment to retrieved_vendors
ResolveVendor_unstored(ps, invoice_data, vendor_code) ==
    IF vendor_code \in DOMAIN ps.retrieved_vendors THEN
        [ps |-> ps,
         invoice_data |-> Put(invoice_data, "vendor", ps.retrieved_vendors[vendor_code])]
    ELSE
        LET looked == populate_vendor_data(vendor_code)
        IN  IF looked.err = "none" THEN
                [ps |-> [ps EXCEPT !.vendor_requests = Append(@, vendor_code)],
                 invoice_data |-> Put(invoice_data, "vendor", looked.vendor)]
            ELSE
                [ps |-> [ps EXCEPT !.vendor_requests = Append(@, vendor_code)],
                 invoice_data |-> Put(invoice_data, "vendor_address_error", vendor_code)]

\* ResolveVendor that does not ask again for a vendor whose lookup failed,
\* and leaves the invoice as it is
ResolveVendor_failure_remembered(ps, invoice_data, vendor_code) ==
    IF vendor_code \in DOMAIN ps.retrieved_vendors THEN
        [ps |-> ps,
         invoice_data |-> Put(invoice_data, "vendor", ps.retrieved_vendors[vendor_code])]
    ELSE IF vendor_code \in Range(ps.vendor_requests) THEN
        [ps |-> ps, invoice_data |-> invoice_data]
    ELSE
        LET looked == populate_vendor_data(vendor_code)
        IN  IF looked.err = "none" THEN
                [ps |-> [ps EXCEPT !.retrieved_vendors = Put(@, vendor_code, looked.vendor),
                                   !.vendor_requests = Append(@, vendor_code)],
                 invoice_data |-> Put(invoice_data, "vendor", looked.vendor)]
            ELSE
                [ps |-> [ps EXCEPT !.vendor_requests = Append(@, vendor_code)],
                 invoice_data |-> Put(invoice_data, "vendor_address_error", vendor_code)]

\* lines 82-93 of the loop: the vendor from retrieved_vendors, or one
\* get_vendor_details request; a vendor without address is not stored
ResolveVendor(ps, invoice_data, vendor_code) ==
    IF vendor_code \in DOMAIN ps.retrieved_vendors THEN
        [ps |-> ps,
         invoice_data |-> Put(invoice_data, "vendor", ps.retrieved_vendors[vendor_code])]
    ELSE
        LET looked == populate_vendor_data(vendor_code)
        IN  IF looked.err = "none" THEN
                [ps |-> [ps EXCEPT !.retrieved_vendors = Put(@, vendor_code, looked.vendor),
                                   !.vendor_requests = Append(@, vendor_code)],
                 invoice_data |-> Put(invoice_data, "vendor", looked.vendor)]
            ELSE
                [ps |-> [ps EXCEPT !.vendor_requests = Append(@, vendor_code)],
                 invoice_data |-> Put(invoice_data, "vendor_address_error", vendor_code)]

\* ResolveFunds without the except clause for FundError
ResolveFunds_uncaught(w, funds) ==
    [ps |-> [w.ps EXCEPT !.retrieved_funds = funds.retrieved_funds,
                         !.fund_requests = funds.fund_requests,
                         !.err = funds.err],
     invoice_data |->
         IF funds.err = "none" THEN Put(w.invoice_data, "funds", funds.funds)
         ELSE w.invoice_data]

\* ResolveFunds with retrieved_funds taken from the value populate_fund_data
\* returns only, and not updated in place
ResolveFunds_by_return(w, funds) ==
    [ps |-> [w.ps EXCEPT !.retrieved_funds = IF funds.err = "none"
                                             THEN funds.retrieved_funds ELSE @,
                         !.fund_requests = funds.fund_requests,
                         !.err = IF funds.err = "FundError" THEN "none" ELSE funds.err],
     invoice_data |->
         IF funds.err = "none" THEN Put(w.invoice_data, "funds", funds.funds)
         ELSE IF funds.err = "FundError"
         THEN Put(w.invoice_data, "fund_errors", funds.fund_codes)
         ELSE w.invoice_data]

\* lines 94-99 of the loop: the funds, or fund_errors on FundError
ResolveFunds(w, funds) ==
    [ps |-> [w.ps EXCEPT !.retrieved_funds = funds.retrieved_funds,
                         !.fund_requests = funds.fund_requests,
                         !.err = IF funds.err = "FundError" THEN "none" ELSE funds.err],
     invoice_data |->
         IF funds.err = "none" THEN Put(w.invoice_data, "funds", funds.funds)
         ELSE IF funds.err = "FundError"
         THEN Put(w.invoice_data, "fund_errors", funds.fund_codes)
         ELSE w.invoice_data]

\* lines 100-102 of the loop: multibyte_errors, set when the list is not empty
CheckMultibyte(invoice_data, multibyte_errors) ==
    IF Len(multibyte_errors) > 0
    THEN Put(invoice_data, "multibyte_errors", multibyte_errors)
    ELSE invoice_data

\* lines 103-110 of the loop: the invoice joins one of the two lists
Classify(ps, invoice_data) ==
    IF IsProblem(invoice_data)
    THEN [ps EXCEPT !.problem_invoices = Append(@, invoice_data)]
    ELSE [ps EXCEPT !.parsed_invoices = Append(@, invoice_data)]

AfterFunds(w) ==
    IF w.ps.err # "none" THEN w.ps
    ELSE Classify(w.ps, CheckMultibyte(w.invoice_data,
                                       check_for_multibyte(w.invoice_data)))

AfterVendor(w, invoice_record) ==
    AfterFunds(ResolveFunds(w, populate_fund_data(invoice_record,
                                                  w.ps.retrieved_funds,
                                                  w.ps.fund_requests)))

\* ParseRecord that passes over a record lacking a mandatory field
ParseRecord_skipping(ps, invoice_record) ==
    IF ~HasMandatoryFields(invoice_record) THEN ps
    ELSE AfterVendor(ResolveVendor(ps, extract_invoice_data(invoice_record),
                                   invoice_record["vendor"]["value"]),
                     invoice_record)

\* one turn of the loop of parse_invoice_records
ParseRecord(ps, invoice_record) ==
    IF ~HasMandatoryFields(invoice_record) THEN [ps EXCEPT !.err = "KeyError"]
    ELSE AfterVendor(ResolveVendor(ps, extract_invoice_data(invoice_record),
                                   invoice_record["vendor"]["value"]),
                     invoice_record)

RECURSIVE ParseLoop(_, _)
ParseLoop(ps, invoice_records) ==
    IF Len(invoice_records) = 0 \/ ps.err # "none" THEN ps
    ELSE ParseLoop(ParseRecord(ps, invoice_records[1]), Tail(invoice_records))

\* parse_invoice_records
parse_invoice_records(invoice_records) == ParseLoop(ParseStart, invoice_records)

(***************************************************************************)
(* alma.py: paged retrieval.                                               *)
(***************************************************************************)
\* the default page size of get_paged
DefaultLimit == 100

Min(a, b) == IF a < b THEN a ELSE b

\* upstream's answer to GET ?limit=limit&offset=offset when it holds `held`:
\* the records offset .. min(offset + limit, T) - 1 and the total count T
AlmaPage(held, limit, offset) ==
    [records |-> SubSeq(held, offset + 1, Min(offset + limit, Len(held))),
     total_record_count |-> Len(held)]

\* the state of a call of get_paged before its first request; done when the
\* generator is exhausted, err the exception that ended it otherwise
PagedStart(limit) ==
    [limit |-> limit, offset |-> 0, records_retrieved |-> 0,
     yielded |-> << >>, requests |-> << >>, done |-> FALSE, err |-> "none"]

\* one activation of get_paged: the request at g.offset is answered by
\* `response`, its records are yielded, and the recursion goes on at
\* offset + limit while records_retrieved < total_record_count
PagedStep(g, response) ==
    LET records_retrieved == g.records_retrieved + Len(response.records)
    IN  [g EXCEPT !.requests = Append(@, g.offset),
                  !.yielded = @ \o response.records,
                  !.records_retrieved = records_retrieved,
                  !.offset = IF records_retrieved < response.total_record_count
                             THEN g.offset + g.limit ELSE g.offset,
                  !.done = ~(records_retrieved < response.total_record_count)]

\* list(get_paged(...)) against an upstream that holds `held`, limit >= 1
RECURSIVE PagedLoop(_, _)
PagedLoop(g, held) ==
    IF g.done THEN g.yielded
    ELSE PagedLoop(PagedStep(g, AlmaPage(held, g.limit, g.offset)), held)

\* AlmaClient.get_invoices_by_status
get_invoices_by_status(held) == PagedLoop(PagedStart(DefaultLimit), held)

\* the sort key of retrieve_sorted_invoices: (vendor code, invoice number)
SortKeyLess(a, b) ==
    \/ StrLess(a["vendor"]["value"], b["vendor"]["value"])
    \/ /\ a["vendor"]["value"] = b["vendor"]["value"]
       /\ StrLess(a["number"], b["number"])

\* sorted(data, key=...): stable
RECURSIVE InsertSorted(_, _)
InsertSorted(sorted, r) ==
    IF Len(sorted) = 0 THEN <<r>>
    ELSE IF SortKeyLess(r, sorted[1]) THEN <<r>> \o sorted
    ELSE <<sorted[1]>> \o InsertSorted(Tail(sorted), r)

RECURSIVE Sorted(_)
Sorted(data) ==
    IF Len(data) = 0 THEN <<>>
    ELSE InsertSorted(Sorted(SubSeq(data, 1, Len(data) - 1)), data[Len(data)])

\* retrieve_sorted_invoices, upstream holding `held` with status Waiting to be Sent
retrieve_sorted_invoices(held) == Sorted(get_invoices_by_status(held))

\* AlmaClient.mark_invoice_paid, upstream answering `answer`: an HTTP error
\* status makes raise_for_status raise; every other answer is returned as it is
mark_invoice_paid(answer) ==
    IF answer.http_error THEN [err |-> "RequestException"]
    ELSE [err |-> "none", json |-> answer.json]

(***************************************************************************)
(* sap.py: splitting, file generation, sequence number.                    *)
(***************************************************************************)
\* split_invoices_by_field_value with if in the place of the first elif
split_invoices_by_field_value_if(invoices, field, first_value, second_value) ==
    LET first(invoice) == invoice[field] = first_value
        second(invoice) ==
            \/ second_value # None /\ invoice[field] = second_value
            \/ second_value = None
    IN  <<SelectSeq(invoices, first), SelectSeq(invoices, second)>>

\* split_invoices_by_field_value; second_value None when omitted
split_invoices_by_field_value(invoices, field, first_value, second_value) ==
    LET first(invoice) == invoice[field] = first_value
        second(invoice) ==
            /\ invoice[field] # first_value
            /\ \/ second_value # None /\ invoice[field] = second_value
               \/ second_value = None
    IN  <<SelectSeq(invoices, first), SelectSeq(invoices, second)>>

\* s.ljust(n, c)
RECURSIVE LJust(_, _, _)
LJust(s, n, c) == IF Len(s) >= n THEN s ELSE LJust(Append(s, c), n, c)

\* f"{s: <n.n}": truncated to n characters, then padded with blanks to n
PadTrunc(s, n) == LJust(SubSeq(s, 1, Min(Len(s), n)), n, " ")

Zeros6 == <<"0", "0", "0", "0", "0", "0">>

\* generate_sap_file_names
generate_sap_file_names(sequence_number, date) ==
    LET date_string == strftime_Ymd(date) \o Zeros6
    IN  << <<"d", "l", "i", "b", "s", "a", "p", "g", ".">>
              \o sequence_number \o <<".">> \o date_string,
           <<"c", "l", "i", "b", "s", "a", "p", "g", ".">>
              \o sequence_number \o <<".">> \o date_string >>

\* generate_next_sap_sequence_number testing the length of the split list
\* in place of the length of its first component
generate_next_sap_sequence_number_split_len(sap_sequence_parameter) ==
    LET split_parameter == Split(sap_sequence_parameter, ",")
    IN  IF Len(split_parameter) < 3 THEN [err |-> "SapSequenceError"]
        ELSE IF ~IsNumeric(split_parameter[1]) THEN [err |-> "ValueError"]
        ELSE [err |-> "none", value |-> StrOf(IntOf(split_parameter[1]) + 1)]

\* generate_next_sap_sequence_number, the parameter store holding
\* sap_sequence_parameter
generate_next_sap_sequence_number(sap_sequence_parameter) ==
    LET split_parameter == Split(sap_sequence_parameter, ",")
    IN  IF Len(split_parameter[1]) < 3 THEN [err |-> "SapSequenceError"]
        ELSE IF ~IsNumeric(split_parameter[1]) THEN [err |-> "ValueError"]
        ELSE [err |-> "none", value |-> StrOf(IntOf(split_parameter[1]) + 1)]

\* update_sap_sequence storing the date before the sequence number
update_sap_sequence_date_first(sap_sequence_number, date, sequence_type) ==
    LET date_string == LJust(strftime_Ymd(date), 14, "0")
    IN  date_string \o <<",">> \o sap_sequence_number \o <<",">> \o sequence_type

\* update_sap_sequence: the value it posts to the parameter store
update_sap_sequence(sap_sequence_number, date, sequence_type) ==
    LET date_string == LJust(strftime_Ymd(date), 14, "0")
    IN  sap_sequence_number \o <<",">> \o date_string \o <<",">> \o sequence_type

\* calculate_invoices_total_amount
calculate_invoices_total_amount(invoices) ==
    SumSeq([i \in 1..Len(invoices) |-> invoices[i]["total amount"]])

\* format_address_for_sap: address_lines[0] raises IndexError on an empty list
format_address_for_sap(address_lines) ==
    IF Len(address_lines) = 0 THEN [err |-> "IndexError"]
    ELSE [err |-> "none",
          payee_name_line_2 |-> address_lines[1],
          street_or_po_box_num |->
              IF Len(address_lines) >= 2 THEN address_lines[2] ELSE <<" ">>,
          payee_name_line_3 |->
              IF Len(address_lines) >= 3 THEN address_lines[3] ELSE <<" ">>]

\* v or " "
OrBlank(v) == IF v = None \/ v = <<>> THEN <<" ">> ELSE v

\* SapLines with enumerate counting from 1 and the test for the last fund
\* left as it is
SapLines_counting_from_one(today_string, invoice) ==
    LET address == format_address_for_sap(invoice["vendor"]["address"]["lines"])
        funds == invoice["funds"]
    IN  << [tag |-> "B",
            document_date |-> today_string,
            baseline_date |-> today_string,
            external_reference |->
                PadTrunc(invoice["number"] \o strftime_ymd(invoice["date"]), 16),
            total_amount |-> invoice["total amount"],
            name |-> PadTrunc(invoice["vendor"]["name"], 35),
            city |-> PadTrunc(OrBlank(invoice["vendor"]["address"]["city"]), 35),
            payee_name_line_2 |-> PadTrunc(address.payee_name_line_2, 35),
            street_or_po_box_num |-> PadTrunc(address.street_or_po_box_num, 35),
            postal_code |->
                PadTrunc(OrBlank(invoice["vendor"]["address"]["postal code"]), 10),
            state_or_province |->
                PadTrunc(OrBlank(invoice["vendor"]["address"]["state or province"]), 3),
            country |-> PadTrunc(OrBlank(invoice["vendor"]["address"]["country"]), 3),
            payee_name_line_3 |-> PadTrunc(address.payee_name_line_3, 35)] >>
        \o [i \in 1..Len(funds) |->
              [tag |-> IF i = Len(funds) - 1 THEN "D" ELSE "C",
               gl_account |-> PadTrunc(funds[i][2]["G/L account"], 10),
               cost_object |-> PadTrunc(funds[i][2]["cost object"], 12),
               amount |-> funds[i][2]["amount"]]]

\* the lines generate_sap_data writes for one invoice: the B record and one
\* record per fund, the last tagged D and the others C.  A line is the record
\* of its fields; the blank filler fields are not listed
SapLines(today_string, invoice) ==
    LET address == format_address_for_sap(invoice["vendor"]["address"]["lines"])
        funds == invoice["funds"]
    IN  << [tag |-> "B",
            document_date |-> today_string,
            baseline_date |-> today_string,
            external_reference |->
                PadTrunc(invoice["number"] \o strftime_ymd(invoice["date"]), 16),
            total_amount |-> invoice["total amount"],
            name |-> PadTrunc(invoice["vendor"]["name"], 35),
            city |-> PadTrunc(OrBlank(invoice["vendor"]["address"]["city"]), 35),
            payee_name_line_2 |-> PadTrunc(address.payee_name_line_2, 35),
            street_or_po_box_num |-> PadTrunc(address.street_or_po_box_num, 35),
            postal_code |->
                PadTrunc(OrBlank(invoice["vendor"]["address"]["postal code"]), 10),
            state_or_province |->
                PadTrunc(OrBlank(invoice["vendor"]["address"]["state or province"]), 3),
            country |-> PadTrunc(OrBlank(invoice["vendor"]["address"]["country"]), 3),
            payee_name_line_3 |-> PadTrunc(address.payee_name_line_3, 35)] >>
        \o [i \in 1..Len(funds) |->
              [tag |-> IF i = Len(funds) THEN "D" ELSE "C",
               gl_account |-> PadTrunc(funds[i][2]["G/L account"], 10),
               cost_object |-> PadTrunc(funds[i][2]["cost object"], 12),
               amount |-> funds[i][2]["amount"]]]

\* generate_sap_data: err is IndexError when an invoice has no address line
RECURSIVE generate_sap_data(_, _)
generate_sap_data(today, invoices) ==
    IF Len(invoices) = 0 THEN [err |-> "none", lines |-> << >>]
    ELSE IF format_address_for_sap(
                invoices[1]["vendor"]["address"]["lines"]).err # "none"
    THEN [err |-> "IndexError"]
    ELSE LET rest == generate_sap_data(today, Tail(invoices))
         IN  IF rest.err # "none" THEN rest
             ELSE [err |-> "none",
                   lines |-> SapLines(strftime_Ymd(today), invoices[1]) \o rest.lines]

\* generate_sap_control: the line count, the totals and the trailer of the
\* control record
generate_sap_control(sap_data_lines, invoice_total) ==
    [line_count |-> Len(sap_data_lines),
     credit_total |-> 0,
     debit_total |-> invoice_total,
     control_3 |-> invoice_total,
     control_4 |-> <<"0", "0", "1", "0", "0", "1">>]

\* generate_summary_warning: one entry per problem invoice
generate_summary_warning(problem_invoices) ==
    [i \in 1..Len(problem_invoices) |->
        [invoice |-> problem_invoices[i]["id"],
         fund_errors |-> Get(problem_invoices[i], "fund_errors", << >>),
         multibyte_errors |-> Get(problem_invoices[i], "multibyte_errors", << >>),
         vendor_address_error |->
             Get(problem_invoices[i], "vendor_address_error", None)]]

\* generate_summary counting every invoice, whatever its payment method
generate_summary_counting_all(problem_invoices, invoices, data_file_name, control_file_name) ==
    [data_file |-> data_file_name,
     control_file |-> control_file_name,
     warning |-> IF Len(problem_invoices) > 0
                 THEN generate_summary_warning(problem_invoices) ELSE << >>,
     lines |-> [i \in 1..Len(invoices) |->
                  [name |-> PadTrunc(invoices[i]["vendor"]["name"], 39),
                   reference |->
                       PadTrunc(invoices[i]["number"]
                                    \o strftime_ymd(invoices[i]["date"]), 20),
                   amount |-> invoices[i]["total amount"]]],
     total_payment |-> calculate_invoices_total_amount(invoices),
     invoice_count |-> Len(invoices),
     excluded_invoices |-> << >>]

\* generate_summary: the parts of the summary text
generate_summary(problem_invoices, invoices, data_file_name, control_file_name) ==
    LET counted(invoice) == invoice["payment method"] = ACCOUNTINGDEPARTMENT
        excluded(invoice) == ~counted(invoice)
        sap == SelectSeq(invoices, counted)
        other == SelectSeq(invoices, excluded)
    IN  [data_file |-> data_file_name,
         control_file |-> control_file_name,
         warning |-> IF Len(problem_invoices) > 0
                     THEN generate_summary_warning(problem_invoices) ELSE << >>,
         lines |-> [i \in 1..Len(sap) |->
                      [name |-> PadTrunc(sap[i]["vendor"]["name"], 39),
                       reference |->
                           PadTrunc(sap[i]["number"] \o strftime_ymd(sap[i]["date"]), 20),
                       amount |-> sap[i]["total amount"]]],
         total_payment |-> calculate_invoices_total_amount(sap),
         invoice_count |-> Len(sap),
         excluded_invoices |->
             [i \in 1..Len(other) |->
                 [payment_method |-> other[i]["payment method"],
                  number |-> other[i]["number"],
                  name |-> other[i]["vendor"]["name"],
                  code |-> other[i]["vendor"]["code"]]]]

\* generate_report: one cover sheet per invoice
generate_report(today, invoices) ==
    [i \in 1..Len(invoices) |->
        [date |-> today,
         vendor_code |-> invoices[i]["vendor"]["code"],
         vendor_name |-> invoices[i]["vendor"]["name"],
         address |-> invoices[i]["vendor"]["address"],
         reference |-> invoices[i]["number"] \o strftime_ymd(invoices[i]["date"]),
         funds |-> invoices[i]["funds"],
         total_amount |-> invoices[i]["total amount"],
         currency |-> invoices[i]["currency"],
         payment_method |-> invoices[i]["payment method"]]]

(***************************************************************************)
(* The state.  Two invocations of process_invoices (Procs) run against the *)
(* same upstream, parameter store, SAP dropbox and mail service.           *)
(***************************************************************************)
Procs == {1, 2}

VARIABLES
    pc,             \* pc[p]: where invocation p stands
    cmd,            \* cmd[p]: the locals of process_invoices
    frame,          \* frame[p]: the locals of the current call of run
    trace,          \* trace[p]: the requests p sent to the external services
                    \* and what it logged in their place, in order
    ssm_history,    \* parameter store: the reads and writes it served, in order
    alma_invoices,  \* upstream: the invoice records, in upstream order
    alma_paid,      \* upstream: the ids of the invoices it has marked paid
    ssm_parameter,  \* parameter store: the value of the SAP sequence parameter
    paged,          \* a call of get_paged on its own
    parsing,        \* a call of parse_invoice_records on its own
    call            \* a call of one function of sap.py on its own

vars == <<pc, cmd, frame, trace, ssm_history, alma_invoices, alma_paid,
          ssm_parameter, paged, parsing, call>>

Today == [year |-> <<"2", "0", "2", "2">>, month |-> <<"0", "1">>,
          day |-> <<"1", "1">>]

mono == <<"m", "o", "n", "o">>

ser == <<"s", "e", "r">>

\* a value of the sequence parameter: "<sequence>,<timestamp>,<type>"
SequenceParameter(sequence, type) ==
    sequence \o <<",">>
    \o <<"2", "0", "2", "1", "0", "7", "2", "2", "0", "0", "0", "0", "0", "0">>
    \o <<",">> \o type

\* the values the parameter store may hold when an invocation starts
StoredParameters ==
    { SequenceParameter(<<"1", "0", "0", "1">>, ser),
      SequenceParameter(<<"0", "0", "0", "3">>, mono),
      SequenceParameter(<<"1">>, ser) }

\* what upstream may answer to a mark-paid request
PaymentStatus(value) == [payment |-> [payment_status |-> [value |-> value]]]

MarkPaidAnswers ==
    { [http_error |-> FALSE, json |-> PaymentStatus("PAID")],
      [http_error |-> FALSE, json |-> PaymentStatus("WRONG")],
      [http_error |-> TRUE, json |-> PaymentStatus("none")] }

\* the sub-lists of the catalogue with at most n records, in catalogue order
SubLists(n) ==
    LET picks == {S \in SUBSET (1..Len(Catalogue)) : Cardinality(S) <= n}
        chosen(S) == LET in(i) == i \in S
                     IN  SelectSeq([i \in 1..Len(Catalogue) |-> i], in)
    IN  { [k \in 1..Len(chosen(S)) |-> Catalogue[chosen(S)[k]]] : S \in picks }

CmdStart(final_run, real_run) ==
    [final_run |-> final_run,
     real_run |-> real_run,
     today |-> Today,
     invoice_records |-> << >>,
     problem_invoices |-> << >>,
     parsed_invoices |-> << >>,
     monograph_invoices |-> << >>,
     serial_invoices |-> << >>,
     vendor_requests |-> << >>,
     fund_requests |-> << >>,
     sap_sequence_parameter |-> << >>,
     monograph_sequence_number |-> << >>,
     serial_sequence_number |-> << >>,
     results |-> << >>,
     exception |-> "none"]

FrameStart ==
    [invoices_type |-> << >>,
     invoices |-> << >>,
     sap_sequence_number |-> << >>,
     data_file_name |-> << >>,
     control_file_name |-> << >>,
     summary |-> << >>,
     report |-> << >>,
     sap_invoices |-> << >>,
     other_payment_invoices |-> << >>,
     data_file_contents |-> << >>,
     control_file_contents |-> << >>,
     index |-> 0,
     paid_invoice_count |-> 0]

PagedIdle == [held |-> << >>, g |-> PagedStart(0)]

ParsingIdle == [invoice_records |-> << >>, index |-> 0, ps |-> ParseStart]

\* no function has been called on its own
CallIdle == [function |-> "none", returned |-> FALSE]

Init ==
    /\ call = CallIdle
    /\ pc = [p \in Procs |-> IF p = 1 THEN "retrieve" ELSE "idle"]
    /\ \E final_run \in BOOLEAN, real_run \in BOOLEAN :
          cmd = [p \in Procs |-> CmdStart(final_run, real_run)]
    /\ frame = [p \in Procs |-> FrameStart]
    /\ trace = [p \in Procs |-> << >>]
    /\ ssm_history = << >>
    /\ alma_invoices \in SubLists(MaxInvoices)
    /\ alma_paid = {}
    /\ ssm_parameter \in StoredParameters
    /\ paged = PagedIdle
    /\ parsing = ParsingIdle

(***************************************************************************)
(* cli.py: process_invoices, one action per step.                          *)
(***************************************************************************)
Raise(p, exception) ==
    /\ pc' = [pc EXCEPT ![p] = "failed"]
    /\ cmd' = [cmd EXCEPT ![p].exception = exception]

\* p sends a request to an external service, or logs in its place
Sends(p, entries) == trace' = [trace EXCEPT ![p] = @ \o entries]

\* Retrieve without the click.Abort for an empty retrieval
Retrieve_no_abort(p) ==
    /\ pc[p] = "retrieve"
    /\ LET waiting(r) == r["id"] \notin alma_paid
           invoice_records == retrieve_sorted_invoices(SelectSeq(alma_invoices, waiting))
       IN  /\ cmd' = [cmd EXCEPT ![p].invoice_records = invoice_records]
           /\ pc' = [pc EXCEPT ![p] = "parse"]
    /\ UNCHANGED <<frame, trace, ssm_history, alma_invoices, alma_paid,
                   ssm_parameter, paged, call, parsing>>

\* retrieve_sorted_invoices, and click.Abort when nothing is waiting
Retrieve(p) ==
    /\ pc[p] = "retrieve"
    /\ LET waiting(r) == r["id"] \notin alma_paid
           invoice_records == retrieve_sorted_invoices(SelectSeq(alma_invoices, waiting))
       IN  /\ cmd' = [cmd EXCEPT ![p].invoice_records = invoice_records]
           /\ pc' = [pc EXCEPT ![p] = IF Len(invoice_records) > 0
                                      THEN "parse" ELSE "aborted"]
    /\ UNCHANGED <<frame, trace, ssm_history, alma_invoices, alma_paid,
                   ssm_parameter, paged, call, parsing>>

\* parse_invoice_records, then the split into monographs and serials
Parse(p) ==
    /\ pc[p] = "parse"
    /\ LET ps == parse_invoice_records(cmd[p].invoice_records)
           split == split_invoices_by_field_value(ps.parsed_invoices, "type",
                                                  monograph, serial)
       IN  IF ps.err # "none" THEN
               /\ pc' = [pc EXCEPT ![p] = "failed"]
               /\ cmd' = [cmd EXCEPT ![p].exception = ps.err,
                                     ![p].vendor_requests = ps.vendor_requests,
                                     ![p].fund_requests = ps.fund_requests]
           ELSE
               /\ pc' = [pc EXCEPT ![p] = "sequence"]
               /\ cmd' = [cmd EXCEPT ![p].problem_invoices = ps.problem_invoices,
                                     ![p].parsed_invoices = ps.parsed_invoices,
                                     ![p].vendor_requests = ps.vendor_requests,
                                     ![p].fund_requests = ps.fund_requests,
                                     ![p].monograph_invoices = split[1],
                                     ![p].serial_invoices = split[2]]
    /\ UNCHANGED <<frame, trace, ssm_history, alma_invoices, alma_paid,
                   ssm_parameter, paged, call, parsing>>

\* SerialSequenceNumber without the increment
SerialSequenceNumber_same(monograph_sequence_number) ==
    StrOf(IntOf(monograph_sequence_number))

\* serial_sequence_number = str(int(monograph_sequence_number) + 1)
SerialSequenceNumber(monograph_sequence_number) ==
    StrOf(IntOf(monograph_sequence_number) + 1)

\* NextSequence storing the numbers it takes in the same step as it reads
NextSequence_reserving(p) ==
    /\ pc[p] = "sequence"
    /\ LET next == generate_next_sap_sequence_number(ssm_parameter)
       IN  /\ Sends(p, << [op |-> "ssm_get", value |-> ssm_parameter] >>)
           /\ ssm_history' = Append(ssm_history,
                  [op |-> "get", by |-> p, value |-> ssm_parameter])
           /\ IF next.err # "none" THEN
                  /\ pc' = [pc EXCEPT ![p] = "failed"]
                  /\ cmd' = [cmd EXCEPT ![p].exception = next.err,
                                        ![p].sap_sequence_parameter = ssm_parameter]
                  /\ ssm_parameter' = ssm_parameter
              ELSE
                  /\ pc' = [pc EXCEPT ![p] = "run"]
                  /\ cmd' = [cmd EXCEPT
                               ![p].sap_sequence_parameter = ssm_parameter,
                               ![p].monograph_sequence_number = next.value,
                               ![p].serial_sequence_number =
                                   SerialSequenceNumber(next.value)]
                  /\ ssm_parameter' =
                        update_sap_sequence(SerialSequenceNumber(next.value),
                                            cmd[p].today, ser)
    /\ UNCHANGED <<frame, alma_invoices, alma_paid, paged, call, parsing>>

\* generate_next_sap_sequence_number and the serial number derived from it
NextSequence(p) ==
    /\ pc[p] = "sequence"
    /\ LET next == generate_next_sap_sequence_number(ssm_parameter)
       IN  /\ Sends(p, << [op |-> "ssm_get", value |-> ssm_parameter] >>)
           /\ ssm_history' = Append(ssm_history,
                  [op |-> "get", by |-> p, value |-> ssm_parameter])
           /\ IF next.err # "none" THEN
                  /\ pc' = [pc EXCEPT ![p] = "failed"]
                  /\ cmd' = [cmd EXCEPT ![p].exception = next.err,
                                        ![p].sap_sequence_parameter = ssm_parameter]
              ELSE
                  /\ pc' = [pc EXCEPT ![p] = "run"]
                  /\ cmd' = [cmd EXCEPT
                               ![p].sap_sequence_parameter = ssm_parameter,
                               ![p].monograph_sequence_number = next.value,
                               ![p].serial_sequence_number =
                                   SerialSequenceNumber(next.value)]
    /\ UNCHANGED <<frame, alma_invoices, alma_paid, ssm_parameter, paged, call,
                   parsing>>

(***************************************************************************)
(* sap.py: run, one action per external request.                           *)
(***************************************************************************)
\* the pass the next call of run makes: monographs first, then serials
PassOf(c) == IF Len(c.results) = 0 THEN monograph ELSE serial

\* "mono" if invoices_type == "monograph" else "ser"
SequenceType(invoices_type) == IF invoices_type = monograph THEN mono ELSE ser

\* "mono" if invoices_type == "monograph" else invoices_type
EmailType(invoices_type) == IF invoices_type = monograph THEN mono ELSE invoices_type

\* NextStepOfRun with the transmission branch taken on final_run alone
NextStepOfRun_final_only(final_run, real_run) ==
    IF final_run THEN "put_data"
    ELSE IF real_run THEN "email"
    ELSE "log"

\* NextStepOfRun persisting the sequence before any file is transmitted
NextStepOfRun_persisting_first(final_run, real_run) ==
    IF final_run /\ real_run THEN "update_sequence"
    ELSE IF real_run THEN "email"
    ELSE "log"

\* the branches of run on its two flags, after the artifacts are generated
NextStepOfRun(final_run, real_run) ==
    IF final_run /\ real_run THEN "put_data"
    ELSE IF real_run THEN "email"
    ELSE "log"

\* InvoicesToMarkPaid handing over the SAP-eligible invoices only
InvoicesToMarkPaid_sap_only(f) == f.sap_invoices

\* the list run hands to mark_invoices_paid
InvoicesToMarkPaid(f) == f.invoices

\* run returns its counts to process_invoices, which calls run for the serials
\* after the monographs and ends after the serials
Return(p) ==
    /\ cmd' = [cmd EXCEPT ![p].results =
                  Append(@, [invoices_type |-> frame[p].invoices_type,
                             total_invoices |-> Len(frame[p].invoices),
                             sap_invoices |-> Len(frame[p].sap_invoices),
                             other_invoices |->
                                 Len(frame[p].other_payment_invoices)])]
    /\ pc' = [pc EXCEPT ![p] = IF frame[p].invoices_type = monograph
                               THEN "run" ELSE "done"]

\* Run treating the pass as a review pass when there are problem invoices
Run_held_back_by_problems(p) ==
    /\ pc[p] = "run"
    /\ LET c == cmd[p]
           final_run == c.final_run /\ Len(c.problem_invoices) = 0
           invoices_type == PassOf(c)
           invoices == IF invoices_type = monograph THEN c.monograph_invoices
                       ELSE c.serial_invoices
           sap_sequence_number ==
               IF invoices_type = monograph THEN c.monograph_sequence_number
               ELSE c.serial_sequence_number
           names == generate_sap_file_names(sap_sequence_number, c.today)
           split == split_invoices_by_field_value(invoices, "payment method",
                                                  ACCOUNTINGDEPARTMENT, None)
           data == generate_sap_data(c.today, split[1])
           entered == [FrameStart EXCEPT
                          !.invoices_type = invoices_type,
                          !.invoices = invoices,
                          !.sap_sequence_number = sap_sequence_number,
                          !.data_file_name = names[1],
                          !.control_file_name = names[2],
                          !.summary = generate_summary(c.problem_invoices, invoices,
                                                       names[1], names[2]),
                          !.report = generate_report(c.today, invoices),
                          !.sap_invoices = split[1],
                          !.other_payment_invoices = split[2]]
       IN  IF final_run /\ data.err # "none" THEN
               /\ Raise(p, data.err)
               /\ frame' = [frame EXCEPT ![p] = entered]
               /\ trace' = trace
           ELSE IF final_run THEN
               /\ frame' = [frame EXCEPT ![p] =
                      [entered EXCEPT
                          !.data_file_contents = data.lines,
                          !.control_file_contents =
                              generate_sap_control(
                                  data.lines,
                                  calculate_invoices_total_amount(split[1]))]]
               /\ Sends(p, << [op |-> "log", pass |-> invoices_type,
                               what |-> "data file contents"],
                              [op |-> "log", pass |-> invoices_type,
                               what |-> "control file contents"] >>)
               /\ pc' = [pc EXCEPT ![p] = NextStepOfRun(final_run, c.real_run)]
               /\ cmd' = cmd
           ELSE
               /\ frame' = [frame EXCEPT ![p] = entered]
               /\ trace' = trace
               /\ pc' = [pc EXCEPT ![p] = NextStepOfRun(final_run, c.real_run)]
               /\ cmd' = cmd
    /\ UNCHANGED <<ssm_history, alma_invoices, alma_paid, ssm_parameter,
                   paged, call, parsing>>

\* run up to its first external request: file names, summary, report, the
\* split by payment method and, in a final run, the data and control files
Run(p) ==
    /\ pc[p] = "run"
    /\ LET c == cmd[p]
           invoices_type == PassOf(c)
           invoices == IF invoices_type = monograph THEN c.monograph_invoices
                       ELSE c.serial_invoices
           sap_sequence_number ==
               IF invoices_type = monograph THEN c.monograph_sequence_number
               ELSE c.serial_sequence_number
           names == generate_sap_file_names(sap_sequence_number, c.today)
           split == split_invoices_by_field_value(invoices, "payment method",
                                                  ACCOUNTINGDEPARTMENT, None)
           data == generate_sap_data(c.today, split[1])
           entered == [FrameStart EXCEPT
                          !.invoices_type = invoices_type,
                          !.invoices = invoices,
                          !.sap_sequence_number = sap_sequence_number,
                          !.data_file_name = names[1],
                          !.control_file_name = names[2],
                          !.summary = generate_summary(c.problem_invoices, invoices,
                                                       names[1], names[2]),
                          !.report = generate_report(c.today, invoices),
                          !.sap_invoices = split[1],
                          !.other_payment_invoices = split[2]]
       IN  IF c.final_run /\ data.err # "none" THEN
               /\ Raise(p, data.err)
               /\ frame' = [frame EXCEPT ![p] = entered]
               /\ trace' = trace
           ELSE IF c.final_run THEN
               /\ frame' = [frame EXCEPT ![p] =
                      [entered EXCEPT
                          !.data_file_contents = data.lines,
                          !.control_file_contents =
                              generate_sap_control(
                                  data.lines,
                                  calculate_invoices_total_amount(split[1]))]]
               /\ Sends(p, << [op |-> "log", pass |-> invoices_type,
                               what |-> "data file contents"],
                              [op |-> "log", pass |-> invoices_type,
                               what |-> "control file contents"] >>)
               /\ pc' = [pc EXCEPT ![p] = NextStepOfRun(c.final_run, c.real_run)]
               /\ cmd' = cmd
           ELSE
               /\ frame' = [frame EXCEPT ![p] = entered]
               /\ trace' = trace
               /\ pc' = [pc EXCEPT ![p] = NextStepOfRun(c.final_run, c.real_run)]
               /\ cmd' = cmd
    /\ UNCHANGED <<ssm_history, alma_invoices, alma_paid, ssm_parameter,
                   paged, call, parsing>>

\* sftp_connection.put of the data file; the connection or the transfer may fail
PutData(p) ==
    /\ pc[p] = "put_data"
    /\ \/ /\ Sends(p, << [op |-> "sftp_put", pass |-> frame[p].invoices_type,
                          file |-> "data",
                          path |-> <<"dropbox/">> \o frame[p].data_file_name,
                          contents |-> frame[p].data_file_contents] >>)
          /\ pc' = [pc EXCEPT ![p] = "put_control"]
          /\ cmd' = cmd
       \/ /\ Raise(p, "SSHException")
          /\ trace' = trace
    /\ UNCHANGED <<frame, ssm_history, alma_invoices, alma_paid, ssm_parameter,
                   paged, call, parsing>>

\* sftp_connection.put of the control file
PutControl(p) ==
    /\ pc[p] = "put_control"
    /\ \/ /\ Sends(p, << [op |-> "sftp_put", pass |-> frame[p].invoices_type,
                          file |-> "control",
                          path |-> <<"dropbox/">> \o frame[p].control_file_name,
                          contents |-> frame[p].control_file_contents] >>)
          /\ pc' = [pc EXCEPT ![p] = "update_sequence"]
          /\ cmd' = cmd
       \/ /\ Raise(p, "SSHException")
          /\ trace' = trace
    /\ UNCHANGED <<frame, ssm_history, alma_invoices, alma_paid, ssm_parameter,
                   paged, call, parsing>>

\* update_sap_sequence; then mark_invoices_paid starts its loop
UpdateSequence(p) ==
    /\ pc[p] = "update_sequence"
    /\ \/ LET value == update_sap_sequence(frame[p].sap_sequence_number,
                                           cmd[p].today,
                                           SequenceType(frame[p].invoices_type))
          IN  /\ ssm_parameter' = value
              /\ ssm_history' = Append(ssm_history,
                     [op |-> "put", by |-> p, value |-> value])
              /\ Sends(p, << [op |-> "ssm_put", pass |-> frame[p].invoices_type,
                              value |-> value] >>)
              /\ frame' = [frame EXCEPT ![p].index = 1,
                                        ![p].paid_invoice_count = 0]
              /\ pc' = [pc EXCEPT ![p] =
                           IF Len(InvoicesToMarkPaid(frame[p])) > 0
                           THEN "mark_paid" ELSE "email"]
              /\ cmd' = cmd
       \/ /\ Raise(p, "ClientError")
          /\ UNCHANGED <<trace, frame, ssm_parameter, ssm_history>>
    /\ UNCHANGED <<alma_invoices, alma_paid, paged, call, parsing>>

\* the exceptions mark_invoices_paid catches and logs
CaughtByMarkInvoicesPaid == {"RequestException", "ValueError"}

\* CountAfterCall with the increment after the try statement
CountAfterCall_always(paid_invoice_count, caught) == paid_invoice_count + 1

\* paid_invoice_count += 1 stands after the call, inside the try
CountAfterCall(paid_invoice_count, caught) ==
    IF caught THEN paid_invoice_count ELSE paid_invoice_count + 1

\* one turn of the loop of mark_invoices_paid: upstream answers the request
\* and marks the invoice paid when it answers PAID
MarkPaid(p) ==
    /\ pc[p] = "mark_paid"
    /\ \E answer \in MarkPaidAnswers :
          LET f == frame[p]
              invoice == InvoicesToMarkPaid(f)[f.index]
              result == mark_invoice_paid(answer)
              caught == result.err \in CaughtByMarkInvoicesPaid
          IN  /\ Sends(p, << [op |-> "mark_paid", pass |-> f.invoices_type,
                              invoice_id |-> invoice["id"],
                              answer |-> answer,
                              failure_logged |-> caught] >>)
              /\ alma_paid' =
                     IF ~answer.http_error /\ answer.json = PaymentStatus("PAID")
                     THEN alma_paid \cup {invoice["id"]} ELSE alma_paid
              /\ frame' = [frame EXCEPT
                     ![p].index = f.index + 1,
                     ![p].paid_invoice_count = CountAfterCall(@, caught)]
              /\ pc' = [pc EXCEPT ![p] =
                           IF f.index + 1 > Len(InvoicesToMarkPaid(f))
                           THEN "email" ELSE "mark_paid"]
    /\ UNCHANGED <<cmd, ssm_history, alma_invoices, ssm_parameter, paged, call,
                   parsing>>

\* generate_sap_report_email and email.send, then run returns
SendEmail(p) ==
    /\ pc[p] = "email"
    /\ \/ /\ Sends(p, << [op |-> "email", pass |-> frame[p].invoices_type,
                          purchase_type |-> EmailType(frame[p].invoices_type),
                          final |-> cmd[p].final_run,
                          body |-> frame[p].summary,
                          attachment |-> frame[p].report] >>)
          /\ Return(p)
       \/ /\ Raise(p, "ClientError")
          /\ trace' = trace
    /\ UNCHANGED <<frame, ssm_history, alma_invoices, alma_paid, ssm_parameter,
                   paged, call, parsing>>

\* not a real run: summary and report are logged, then run returns
LogArtifacts(p) ==
    /\ pc[p] = "log"
    /\ Sends(p, << [op |-> "log", pass |-> frame[p].invoices_type,
                    what |-> "summary"],
                   [op |-> "log", pass |-> frame[p].invoices_type,
                    what |-> "report"] >>)
    /\ Return(p)
    /\ UNCHANGED <<frame, ssm_history, alma_invoices, alma_paid, ssm_parameter,
                   paged, call, parsing>>

Step(p) ==
    \/ Retrieve(p)
    \/ Parse(p)
    \/ NextSequence(p)
    \/ Run(p)
    \/ PutData(p)
    \/ PutControl(p)
    \/ UpdateSequence(p)
    \/ MarkPaid(p)
    \/ SendEmail(p)
    \/ LogArtifacts(p)

Next == \E p \in Procs : Step(p)

\* one invocation of process_invoices, in any of the four run modes
Spec == Init /\ [][Next]_vars

(***************************************************************************)
(* Two invocations started together: the first final and real, the second  *)
(* in any of the four run modes.                                           *)
(***************************************************************************)
InitConc ==
    /\ call = CallIdle
    /\ pc = [p \in Procs |-> "retrieve"]
    /\ \E final_run \in BOOLEAN, real_run \in BOOLEAN :
          cmd = [p \in Procs |-> IF p = 1 THEN CmdStart(TRUE, TRUE)
                                 ELSE CmdStart(final_run, real_run)]
    /\ frame = [p \in Procs |-> FrameStart]
    /\ trace = [p \in Procs |-> << >>]
    /\ ssm_history = << >>
    /\ alma_invoices \in SubLists(1)
    /\ alma_paid = {}
    /\ ssm_parameter \in StoredParameters
    /\ paged = PagedIdle
    /\ parsing = ParsingIdle

SpecConc == InitConc /\ [][Next]_vars

(***************************************************************************)
(* A call of parse_invoice_records, one record at a time.                  *)
(***************************************************************************)
Stopped == [p \in Procs |-> "idle"]

InitParse ==
    /\ call = CallIdle
    /\ pc = Stopped
    /\ cmd = [p \in Procs |-> CmdStart(FALSE, FALSE)]
    /\ frame = [p \in Procs |-> FrameStart]
    /\ trace = [p \in Procs |-> << >>]
    /\ ssm_history = << >>
    /\ alma_invoices = << >>
    /\ alma_paid = {}
    /\ ssm_parameter = << >>
    /\ paged = PagedIdle
    /\ \E invoice_records \in SubLists(MaxRecords) :
          parsing = [ParsingIdle EXCEPT !.invoice_records = invoice_records]

\* one turn of the loop of parse_invoice_records
ParseNextRecord ==
    /\ parsing.index < Len(parsing.invoice_records)
    /\ parsing.ps.err = "none"
    /\ parsing' = [parsing EXCEPT
                      !.index = @ + 1,
                      !.ps = ParseRecord(@, parsing.invoice_records[parsing.index + 1])]
    /\ UNCHANGED <<pc, cmd, frame, trace, ssm_history, alma_invoices, alma_paid,
                   ssm_parameter, paged, call>>

SpecParse == InitParse /\ [][ParseNextRecord]_vars

(***************************************************************************)
(* A call of get_paged, one page request at a time, against an upstream    *)
(* that holds T records and serves the page asked for.                     *)
(***************************************************************************)
InitPaged ==
    /\ call = CallIdle
    /\ pc = Stopped
    /\ cmd = [p \in Procs |-> CmdStart(FALSE, FALSE)]
    /\ frame = [p \in Procs |-> FrameStart]
    /\ trace = [p \in Procs |-> << >>]
    /\ ssm_history = << >>
    /\ alma_invoices = << >>
    /\ alma_paid = {}
    /\ ssm_parameter = << >>
    /\ parsing = ParsingIdle
    /\ \E T \in 0..MaxTotal, limit \in 0..MaxLimit :
          paged = [held |-> [i \in 1..T |-> [id |-> i]], g |-> PagedStart(limit)]

\* one activation of get_paged: its request and upstream's answer, or the
\* RecursionError of a recursive call beyond the interpreter's limit
GetPage ==
    /\ ~paged.g.done
    /\ paged.g.err = "none"
    /\ paged' = IF Len(paged.g.requests) < MaxRequests
                THEN [paged EXCEPT
                         !.g = PagedStep(@, AlmaPage(paged.held, @.limit, @.offset))]
                ELSE [paged EXCEPT !.g.err = "RecursionError"]
    /\ UNCHANGED <<pc, cmd, frame, trace, ssm_history, alma_invoices, alma_paid,
                   ssm_parameter, parsing, call>>

SpecPaged == InitPaged /\ [][GetPage]_vars

\* get_paged goes on to its next request by itself: the recursive call
\* follows the last yield of a page without waiting for anything
SpecPagedLive == SpecPaged /\ WF_vars(GetPage)

\* what upstream may answer to GET ?limit=limit&offset=offset when it holds
\* `held` and may serve a page shorter than asked for: no to limit of the
\* records from offset on, and the total count T
AlmaPages(held, limit, offset) ==
    { [records |-> SubSeq(held, offset + 1, offset + size),
       total_record_count |-> Len(held)] :
          size \in 0..Min(limit, Len(held) - Min(offset, Len(held))) }

\* one activation of get_paged against that upstream
GetAnyPage ==
    /\ ~paged.g.done
    /\ paged.g.err = "none"
    /\ \/ /\ Len(paged.g.requests) < MaxRequests
          /\ \E response \in AlmaPages(paged.held, paged.g.limit, paged.g.offset) :
                paged' = [paged EXCEPT !.g = PagedStep(@, response)]
       \/ /\ Len(paged.g.requests) >= MaxRequests
          /\ paged' = [paged EXCEPT !.g.err = "RecursionError"]
    /\ UNCHANGED <<pc, cmd, frame, trace, ssm_history, alma_invoices, alma_paid,
                   ssm_parameter, parsing, call>>

\* a call of get_paged against an upstream that serves pages of any size
SpecAnyPage == InitPaged /\ [][GetAnyPage]_vars /\ WF_vars(GetAnyPage)

(***************************************************************************)
(* A call of one function of sap.py on its own: call holds the function,   *)
(* its arguments and, when it has returned, its result.                    *)
(***************************************************************************)
\* no invocation, no call of get_paged and no call of parse_invoice_records
NothingElseRuns ==
    /\ pc = Stopped
    /\ cmd = [p \in Procs |-> CmdStart(FALSE, FALSE)]
    /\ frame = [p \in Procs |-> FrameStart]
    /\ trace = [p \in Procs |-> << >>]
    /\ ssm_history = << >>
    /\ alma_invoices = << >>
    /\ alma_paid = {}
    /\ ssm_parameter = << >>
    /\ paged = PagedIdle
    /\ parsing = ParsingIdle

OnlyCallChanges ==
    UNCHANGED <<pc, cmd, frame, trace, ssm_history, alma_invoices, alma_paid,
                ssm_parameter, paged, parsing>>

\* the sequences of at most n elements of S
SeqsUpTo(S, n) == UNION {[1..k -> S] : k \in 0..n}

\* the records populate_fund_data is called with on its own: two invoice
\* lines that share at most MaxDistributions fund distributions, each of a
\* fund upstream finds (two of them under one external id) or does not find
FundRecords ==
    LET distribution == {FundDist(code, amount) :
                            code \in {F0, F1, F2, F3, FX}, amount \in {100, 250}}
        cuts == {pair \in SeqsUpTo(distribution, MaxDistributions)
                              \X (0..MaxDistributions) : pair[2] <= Len(pair[1])}
    IN  { [invoice_lines |->
              [invoice_line |->
                  << [fund_distribution |-> SubSeq(pair[1], 1, pair[2])],
                     [fund_distribution |->
                         SubSeq(pair[1], pair[2] + 1, Len(pair[1]))] >>]] :
            pair \in cuts }

\* a call of populate_fund_data with no fund retrieved yet
InitFunds ==
    /\ NothingElseRuns
    /\ \E invoice_record \in FundRecords :
          call = [function |-> "populate_fund_data",
                  invoice_record |-> invoice_record,
                  returned |-> FALSE]

PopulateFundData ==
    /\ call.function = "populate_fund_data"
    /\ ~call.returned
    /\ call' = [function |-> call.function,
                invoice_record |-> call.invoice_record,
                returned |-> TRUE,
                result |-> populate_fund_data(call.invoice_record, << >>, << >>)]
    /\ OnlyCallChanges

SpecFunds == InitFunds /\ [][PopulateFundData]_vars

\* the vendor records determine_vendor_payment_address is called with on its
\* own: no contact_info address field, or a list of at most MaxAddresses
\* addresses, each with no, one or two address types and its position among
\* the addresses as its first line
VendorRecords ==
    LET claim == <<"c", "l", "a", "i", "m">>
        type(value) == [value |-> value, desc |-> <<Upper[IndexIn(Lower, value[1])]>>]
        types == { << >>, <<type(order)>>, <<type(payment)>>,
                   <<type(claim), type(payment)>> }
        addresses(chosen) ==
            [i \in 1..Len(chosen) |->
                [address_type |-> chosen[i], line1 |-> StrOf(i)]]
    IN  { [name |-> <<"V">>, contact_info |-> [email |-> << >>]] }
        \cup { [name |-> <<"V">>, contact_info |-> [address |-> addresses(chosen)]] :
                 chosen \in SeqsUpTo(types, MaxAddresses) }

InitAddress ==
    /\ NothingElseRuns
    /\ \E vendor_record \in VendorRecords :
          call = [function |-> "determine_vendor_payment_address",
                  vendor_record |-> vendor_record,
                  returned |-> FALSE]

DetermineVendorPaymentAddress ==
    /\ call.function = "determine_vendor_payment_address"
    /\ ~call.returned
    /\ call' = [function |-> call.function,
                vendor_record |-> call.vendor_record,
                returned |-> TRUE,
                result |-> determine_vendor_payment_address(call.vendor_record)]
    /\ OnlyCallChanges

SpecAddress == InitAddress /\ [][DetermineVendorPaymentAddress]_vars

\* the str values of at most n characters, written with a one-byte
\* character, a two-byte one and a three-byte one
Texts(n) == SeqsUpTo({"-", "U+00E9", "U+2011"}, n)

\* the invoice of record R01 as it stands at line 100 of the parser
InvoiceAtLine100 ==
    ResolveFunds(ResolveVendor(ParseStart, extract_invoice_data(R01),
                               R01["vendor"]["value"]),
                 populate_fund_data(R01, << >>, << >>)).invoice_data

\* the invoices check_for_multibyte is called with on its own: that invoice
\* with any text of at most MaxTextLen characters as its number and as the
\* second line of the vendor's address, and with no or one character as the
\* name of its vendor
InitMultibyte ==
    /\ NothingElseRuns
    /\ \E number \in Texts(MaxTextLen), name \in Texts(1), line \in Texts(MaxTextLen) :
          call = [function |-> "check_for_multibyte",
                  invoice |-> [InvoiceAtLine100 EXCEPT
                                  !["number"] = number,
                                  !["vendor"]["name"] = name,
                                  !["vendor"]["address"]["lines"][2] = line],
                  returned |-> FALSE]

\* lines 100-110 of parse_invoice_records: check_for_multibyte, and the list
\* the invoice joins
CheckForMultibyte ==
    /\ call.function = "check_for_multibyte"
    /\ ~call.returned
    /\ LET multibyte_errors == check_for_multibyte(call.invoice)
       IN  call' = [function |-> call.function,
                    invoice |-> call.invoice,
                    returned |-> TRUE,
                    result |-> multibyte_errors,
                    ps |-> Classify(ParseStart,
                                    CheckMultibyte(call.invoice, multibyte_errors))]
    /\ OnlyCallChanges

SpecMultibyte == InitMultibyte /\ [][CheckForMultibyte]_vars

\* the calls of split_invoices_by_field_value on its own: at most MaxItems
\* invoices, each with its position as id and one of three payment methods,
\* split by payment method with ACCOUNTINGDEPARTMENT as first value and with
\* the second value omitted (as run calls it), given, or given and equal to
\* the first
InitSplit ==
    /\ NothingElseRuns
    /\ \E methods \in SeqsUpTo({ACCOUNTINGDEPARTMENT, CORRECTION, <<"C", "A", "S", "H">>},
                               MaxItems),
          second_value \in {None, CORRECTION, ACCOUNTINGDEPARTMENT} :
          call = [function |-> "split_invoices_by_field_value",
                  invoices |-> [i \in 1..Len(methods) |->
                                   ("id" :> StrOf(i))
                                   @@ ("payment method" :> methods[i])],
                  field |-> "payment method",
                  first_value |-> ACCOUNTINGDEPARTMENT,
                  second_value |-> second_value,
                  returned |-> FALSE]

\* split_invoices_by_field_value, and the counts run returns of its two lists
SplitInvoicesByFieldValue ==
    /\ call.function = "split_invoices_by_field_value"
    /\ ~call.returned
    /\ LET split == split_invoices_by_field_value(call.invoices, call.field,
                                                  call.first_value, call.second_value)
       IN  call' = [function |-> call.function,
                    invoices |-> call.invoices,
                    field |-> call.field,
                    first_value |-> call.first_value,
                    second_value |-> call.second_value,
                    returned |-> TRUE,
                    result |-> split,
                    counts |-> [total_invoices |-> Len(call.invoices),
                                sap_invoices |-> Len(split[1]),
                                other_invoices |-> Len(split[2])]]
    /\ OnlyCallChanges

SpecSplit == InitSplit /\ [][SplitInvoicesByFieldValue]_vars

\* the k-th fund allocation of an invoice, as populate_fund_data returns it
Allocation(k) ==
    <<StrOf(10 + k) \o <<"-">> \o StrOf(k),
      ("amount" :> 100 * k)
      @@ ("cost object" :> StrOf(10 + k))
      @@ ("G/L account" :> StrOf(k))>>

\* the calls of generate_sap_data on its own: at most MaxSapInvoices parsed
\* invoices, each with its position as number and with no to MaxFunds fund
\* allocations
InitSapData ==
    /\ NothingElseRuns
    /\ \E fund_counts \in SeqsUpTo(0..MaxFunds, MaxSapInvoices) :
          call = [function |-> "generate_sap_data",
                  invoices |-> [i \in 1..Len(fund_counts) |->
                                   [InvoiceAtLine100 EXCEPT
                                       !["number"] = <<"N">> \o StrOf(i),
                                       !["funds"] = [k \in 1..fund_counts[i] |->
                                                        Allocation(k)]]],
                  returned |-> FALSE]

GenerateSapData ==
    /\ call.function = "generate_sap_data"
    /\ ~call.returned
    /\ call' = [function |-> call.function,
                invoices |-> call.invoices,
                returned |-> TRUE,
                result |-> generate_sap_data(Today, call.invoices)]
    /\ OnlyCallChanges

SpecSapData == InitSapData /\ [][GenerateSapData]_vars

(***************************************************************************)
(* The text of the data file and of the control file.                      *)
(***************************************************************************)
\* f"{x:.2f}" of an amount of cents >= 0: the units, a point and two digits
format_2f(cents) ==
    StrOf(cents \div 100)
        \o <<".", Digits[((cents % 100) \div 10) + 1], Digits[(cents % 10) + 1]>>

\* the string generate_sap_data returns, character by character: every line
\* record with its fixed fields and its filler, ended by a newline
RECURSIVE sap_data_file(_)
sap_data_file(lines) ==
    LET Blanks(n) == [i \in 1..n |-> " "]
        \* f"{x:16.2f}": right-justified in 16 characters
        Amount(cents) ==
            Blanks(16 - Min(16, Len(format_2f(cents)))) \o format_2f(cents)
        Text(line) ==
            IF line.tag = "B"
            THEN <<"B">> \o line.document_date \o line.baseline_date
                 \o line.external_reference
                 \o <<"X", "0", "0", "0">> \o <<"4", "0", "0", "0", "0", "0">>
                 \o Amount(line.total_amount)
                 \o Blanks(1) \o Blanks(1) \o Blanks(2) \o Blanks(4) \o Blanks(1)
                 \o <<"X">>
                 \o line.name \o line.city \o line.payee_name_line_2
                 \o Blanks(1)
                 \o line.street_or_po_box_num \o line.postal_code
                 \o line.state_or_province \o line.country
                 \o Blanks(50)
                 \o line.payee_name_line_3
                 \o <<"\n">>
            ELSE <<line.tag>> \o line.gl_account \o line.cost_object
                 \o Amount(line.amount) \o Blanks(1) \o <<"\n">>
    IN  IF Len(lines) = 0 THEN << >>
        ELSE Text(lines[1]) \o sap_data_file(Tail(lines))

\* sap_control_file with the length of the data counted in characters, not
\* in bytes
sap_control_file_in_characters(data_file, invoice_total) ==
    LET zfill(s, n) == [i \in 1..(n - Min(n, Len(s))) |-> "0"] \o s
        sap_data_file_lines ==
            Cardinality({i \in 1..Len(data_file) : data_file[i] = "\n"})
                + (IF Len(data_file) > 0 /\ data_file[Len(data_file)] # "\n"
                   THEN 1 ELSE 0)
        total == zfill(SelectSeq(format_2f(invoice_total), LAMBDA c : c # "."), 20)
    IN  zfill(StrOf(Len(data_file)), 16)
        \o zfill(StrOf(sap_data_file_lines), 16)
        \o zfill(<< >>, 20)
        \o total
        \o total
        \o <<"0", "0", "1", "0", "0", "1", "0", "0", "0", "0",
             "0", "0", "0", "0", "0", "0", "0", "0", "0", "0">>
        \o <<"\n">>

\* generate_sap_control on the text of the data file and the invoice total in
\* cents (>= 0): the control record, character by character
sap_control_file(data_file, invoice_total) ==
    LET \* s.zfill(n) and f"{k:0n}" for k >= 0
        zfill(s, n) == [i \in 1..(n - Min(n, Len(s))) |-> "0"] \o s
        wide == {i \in 1..Len(data_file) : UTF8Len(data_file[i]) > 1}
        \* len(sap_data_file.encode("utf-8"))
        sap_data_file_length ==
            Len(data_file)
                + Cardinality({i \in wide : UTF8Len(data_file[i]) = 2})
                + 2 * Cardinality({i \in wide : UTF8Len(data_file[i]) = 3})
                + 3 * Cardinality({i \in wide : UTF8Len(data_file[i]) = 4})
        \* len(sap_data_file.splitlines()): the newline is the only line
        \* boundary of the model's alphabet
        sap_data_file_lines ==
            Cardinality({i \in 1..Len(data_file) : data_file[i] = "\n"})
                + (IF Len(data_file) > 0 /\ data_file[Len(data_file)] # "\n"
                   THEN 1 ELSE 0)
        total == zfill(SelectSeq(format_2f(invoice_total), LAMBDA c : c # "."), 20)
    IN  zfill(StrOf(sap_data_file_length), 16)
        \o zfill(StrOf(sap_data_file_lines), 16)
        \o zfill(<< >>, 20)
        \o total
        \o total
        \o <<"0", "0", "1", "0", "0", "1", "0", "0", "0", "0",
             "0", "0", "0", "0", "0", "0", "0", "0", "0", "0">>
        \o <<"\n">>

\* the calls of generate_sap_control on its own: the data file of at most
\* MaxInvoices invoices with no to MaxFunds allocations each, with a vendor
\* name of one- or multi-byte characters, and an invoice total
InitControl ==
    /\ NothingElseRuns
    /\ \E fund_counts \in SeqsUpTo(0..MaxFunds, MaxInvoices),
          name \in {<<"V">>, <<"U+00E9">>, <<"U+2011", "a">>},
          invoice_total \in {0, 5, 136740} :
          LET invoices == [i \in 1..Len(fund_counts) |->
                             [InvoiceAtLine100 EXCEPT
                                 !["number"] = <<"N">> \o StrOf(i),
                                 !["vendor"]["name"] = name,
                                 !["funds"] = [k \in 1..fund_counts[i] |->
                                                  Allocation(k)]]]
          IN  call = [function |-> "generate_sap_control",
                      invoices |-> invoices,
                      sap_data_file |->
                          sap_data_file(generate_sap_data(Today, invoices).lines),
                      invoice_total |-> invoice_total,
                      returned |-> FALSE]

GenerateSapControl ==
    /\ call.function = "generate_sap_control"
    /\ ~call.returned
    /\ call' = [function |-> call.function,
                invoices |-> call.invoices,
                sap_data_file |-> call.sap_data_file,
                invoice_total |-> call.invoice_total,
                returned |-> TRUE,
                result |-> sap_control_file(call.sap_data_file,
                                            call.invoice_total)]
    /\ OnlyCallChanges

SpecControl == InitControl /\ [][GenerateSapControl]_vars

(***************************************************************************)
(* Two calls of parse_invoice_records, one after the other, on the same     *)
(* list: call keeps what the first call was given and what it returned.     *)
(***************************************************************************)
\* the second call, with the caches of the first call still in place
ParseAgain_keeping_caches ==
    /\ call = CallIdle
    /\ \/ parsing.index = Len(parsing.invoice_records)
       \/ parsing.ps.err # "none"
    /\ call' = [function |-> "parse_invoice_records",
                invoice_records |-> parsing.invoice_records,
                returned |-> TRUE,
                result |-> parsing.ps]
    /\ parsing' = [parsing EXCEPT
                      !.index = 0,
                      !.ps = [ParseStart EXCEPT
                                 !.retrieved_vendors = parsing.ps.retrieved_vendors,
                                 !.retrieved_funds = parsing.ps.retrieved_funds]]
    /\ UNCHANGED <<pc, cmd, frame, trace, ssm_history, alma_invoices, alma_paid,
                   ssm_parameter, paged>>

\* the first call has returned or raised, and parse_invoice_records is called
\* again on the same list: its four collections are local and start empty
ParseAgain ==
    /\ call = CallIdle
    /\ \/ parsing.index = Len(parsing.invoice_records)
       \/ parsing.ps.err # "none"
    /\ call' = [function |-> "parse_invoice_records",
                invoice_records |-> parsing.invoice_records,
                returned |-> TRUE,
                result |-> parsing.ps]
    /\ parsing' = [parsing EXCEPT !.index = 0, !.ps = ParseStart]
    /\ UNCHANGED <<pc, cmd, frame, trace, ssm_history, alma_invoices, alma_paid,
                   ssm_parameter, paged>>

SpecParseTwice == InitParse /\ [][ParseNextRecord \/ ParseAgain]_vars

(***************************************************************************)
(* update_sap_sequence and generate_next_sap_sequence_number on their own,  *)
(* against the parameter store.                                             *)
(***************************************************************************)
\* the sequence numbers handed to update_sap_sequence: the digit strings of
\* one to MaxSequenceLen digits out of 0, 1 and 9
SequenceNumbers ==
    UNION {[1..k -> {"0", "1", "9"}] : k \in 1..MaxSequenceLen}

\* the parameter store holds one of its starting values; either the next
\* number is read from it, or it is first updated with a sequence number
InitSequence ==
    /\ pc = Stopped
    /\ cmd = [p \in Procs |-> CmdStart(FALSE, FALSE)]
    /\ frame = [p \in Procs |-> FrameStart]
    /\ trace = [p \in Procs |-> << >>]
    /\ ssm_history = << >>
    /\ alma_invoices = << >>
    /\ alma_paid = {}
    /\ ssm_parameter \in StoredParameters
    /\ paged = PagedIdle
    /\ parsing = ParsingIdle
    /\ \/ call = [function |-> "generate_next_sap_sequence_number",
                  updated |-> FALSE,
                  returned |-> FALSE]
       \/ \E sap_sequence_number \in SequenceNumbers,
             sequence_type \in {mono, ser} :
             call = [function |-> "update_sap_sequence",
                     sap_sequence_number |-> sap_sequence_number,
                     sequence_type |-> sequence_type,
                     returned |-> FALSE]

\* update_sap_sequence posts its value; the next number is read afterwards
UpdateSapSequence ==
    /\ call.function = "update_sap_sequence"
    /\ ssm_parameter' = update_sap_sequence(call.sap_sequence_number, Today,
                                            call.sequence_type)
    /\ call' = [function |-> "generate_next_sap_sequence_number",
                updated |-> TRUE,
                sap_sequence_number |-> call.sap_sequence_number,
                sequence_type |-> call.sequence_type,
                returned |-> FALSE]
    /\ UNCHANGED <<pc, cmd, frame, trace, ssm_history, alma_invoices, alma_paid,
                   paged, parsing>>

\* generate_next_sap_sequence_number reads the parameter and returns or raises
GenerateNextSapSequenceNumber ==
    /\ call.function = "generate_next_sap_sequence_number"
    /\ ~call.returned
    /\ call' = [k \in DOMAIN call \cup {"read", "result"} |->
                  IF k = "returned" THEN TRUE
                  ELSE IF k = "read" THEN ssm_parameter
                  ELSE IF k = "result"
                  THEN generate_next_sap_sequence_number(ssm_parameter)
                  ELSE call[k]]
    /\ OnlyCallChanges

SpecSequence ==
    InitSequence /\ [][UpdateSapSequence \/ GenerateNextSapSequenceNumber]_vars

(***************************************************************************)
(* Two invocations, the first final and real, the second in any of the      *)
(* four run modes and started after the first has ended or failed.          *)
(***************************************************************************)
InitSuccessive ==
    /\ call = CallIdle
    /\ pc = [p \in Procs |-> IF p = 1 THEN "retrieve" ELSE "idle"]
    /\ \E final_run \in BOOLEAN, real_run \in BOOLEAN :
          cmd = [p \in Procs |-> IF p = 1 THEN CmdStart(TRUE, TRUE)
                                 ELSE CmdStart(final_run, real_run)]
    /\ frame = [p \in Procs |-> FrameStart]
    /\ trace = [p \in Procs |-> << >>]
    /\ ssm_history = << >>
    /\ alma_invoices \in SubLists(1)
    /\ alma_paid = {}
    /\ ssm_parameter \in StoredParameters
    /\ paged = PagedIdle
    /\ parsing = ParsingIdle

\* the first invocation is over and the command is invoked again
NextInvocation ==
    /\ pc[1] \in {"done", "failed"}
    /\ pc[2] = "idle"
    /\ pc' = [pc EXCEPT ![2] = "retrieve"]
    /\ UNCHANGED <<cmd, frame, trace, ssm_history, alma_invoices, alma_paid,
                   ssm_parameter, paged, parsing, call>>

SpecSuccessive == InitSuccessive /\ [][Next \/ NextInvocation]_vars

(***************************************************************************)
(* Properties.                                                             *)
(***************************************************************************)
\* the entries of p's trace for one kind of request
Entries(p, op) ==
    LET is(e) == e.op = op
    IN  SelectSeq(trace[p], is)

\* the entries of p's trace for one kind of request in one pass of run
EntriesOfPass(p, op, pass) ==
    LET is(e) == e.op = op /\ e.pass = pass
    IN  SelectSeq(trace[p], is)

\* what p logged in one pass of run
LoggedInPass(p, pass) ==
    {e.what : e \in Range(EntriesOfPass(p, "log", pass))}

ExternalWrites == {"sftp_put", "ssm_put", "mark_paid"}

FinalReal(p) == cmd[p].final_run /\ cmd[p].real_run

\* the list and the sequence number process_invoices hands to run for a pass
PassInvoices(p, pass) ==
    IF pass = monograph THEN cmd[p].monograph_invoices ELSE cmd[p].serial_invoices

PassSequenceNumber(p, pass) ==
    IF pass = monograph THEN cmd[p].monograph_sequence_number
    ELSE cmd[p].serial_sequence_number

\* the reference by which a B record of a data file names its invoice
ExternalReference(invoice) ==
    PadTrunc(invoice["number"] \o strftime_ymd(invoice["date"]), 16)

\* the B records among the lines of a data file
ReferencesIn(lines) ==
    {lines[i].external_reference : i \in {j \in 1..Len(lines) : lines[j].tag = "B"}}

\* C1: in run the SFTP transmissions, the sequence update and the mark-paid
\* calls are made only when final_run and real_run both hold; a pass of run
\* that returns has sent its report e-mail exactly when real_run holds; and
\* with real_run false a pass makes no external write and only logs its
\* summary and report (and, in a final run, its data and control files).
C1_WritesGatedByFlags ==
    \A p \in Procs :
        /\ \A i \in 1..Len(trace[p]) :
              /\ trace[p][i].op \in ExternalWrites => FinalReal(p)
              /\ trace[p][i].op = "email" => cmd[p].real_run
        /\ \A k \in 1..Len(cmd[p].results) :
              LET pass == cmd[p].results[k].invoices_type
              IN  /\ cmd[p].real_run <=>
                        Len(EntriesOfPass(p, "email", pass)) = 1
                  /\ ~cmd[p].real_run =>
                        /\ Len(EntriesOfPass(p, "email", pass)) = 0
                        /\ {"summary", "report"} \subseteq LoggedInPass(p, pass)
                  /\ cmd[p].final_run =>
                        {"data file contents", "control file contents"}
                            \subseteq LoggedInPass(p, pass)
        /\ ~FinalReal(p) =>
              /\ \A i \in 1..Len(ssm_history) :
                    ssm_history[i].by = p => ssm_history[i].op = "get"
              /\ pc[p] # "idle" => alma_paid = {}

\* a final, not real invocation has ended: both passes generated and logged
\* their files and nothing was written outside
C1_Witness ==
    /\ pc[1] = "done"
    /\ cmd[1].final_run /\ ~cmd[1].real_run
    /\ Len(frame[1].data_file_contents) > 0
    /\ Len(trace[1]) > 0

\* C2: a final and real pass of run that returns has transmitted the data
\* file and then the control file under the names of its sequence number,
\* has stored "<its sequence number>,<date>,<mono or ser>", and has called
\* mark-paid once for every invoice of its input list, in list order, the
\* invoices left out of the data file for their payment method included.
C2_FinalRealPass ==
    \A p \in Procs :
        FinalReal(p) =>
            \A k \in 1..Len(cmd[p].results) :
                LET pass == cmd[p].results[k].invoices_type
                    invoices == PassInvoices(p, pass)
                    names == generate_sap_file_names(PassSequenceNumber(p, pass),
                                                     cmd[p].today)
                    puts == EntriesOfPass(p, "sftp_put", pass)
                    updates == EntriesOfPass(p, "ssm_put", pass)
                    marks == EntriesOfPass(p, "mark_paid", pass)
                    eligible(invoice) ==
                        invoice["payment method"] = ACCOUNTINGDEPARTMENT
                IN  /\ Len(puts) = 2
                    /\ puts[1].file = "data" /\ puts[2].file = "control"
                    /\ puts[1].path = <<"dropbox/">> \o names[1]
                    /\ puts[2].path = <<"dropbox/">> \o names[2]
                    /\ ReferencesIn(puts[1].contents) =
                          {ExternalReference(invoice) :
                              invoice \in Range(SelectSeq(invoices, eligible))}
                    /\ Len(updates) = 1
                    /\ Split(updates[1].value, ",")[1] = PassSequenceNumber(p, pass)
                    /\ Split(updates[1].value, ",")[3] =
                          (IF pass = monograph THEN mono ELSE ser)
                    /\ Len(marks) = Len(invoices)
                    /\ \A i \in 1..Len(invoices) :
                          marks[i].invoice_id = invoices[i]["id"]

\* a final and real monograph pass has returned after marking an invoice
\* that its data file does not hold
C2_Witness ==
    /\ FinalReal(1)
    /\ Len(cmd[1].results) = 2
    /\ cmd[1].results[1].other_invoices > 0
    /\ cmd[1].results[1].sap_invoices > 0
    /\ Len(EntriesOfPass(1, "mark_paid", monograph)) = 2

\* the markers that make an invoice a problem invoice
Markers == {"vendor_address_error", "fund_errors", "multibyte_errors"}

Marked(invoice) == Markers \cap DOMAIN invoice # {}

IdsOf(invoices) == [i \in 1..Len(invoices) |-> invoices[i]["id"]]

\* every data file p has generated so far: the transmitted ones and the one
\* of the current pass
DataFilesOf(p) ==
    {e.contents : e \in {x \in Range(Entries(p, "sftp_put")) : x.file = "data"}}
        \cup {frame[p].data_file_contents}

\* C3: when parse_invoice_records has returned, every input record is in
\* exactly one of its two lists and each list keeps the input order; the
\* problem list holds exactly the invoices that carry vendor_address_error,
\* fund_errors or multibyte_errors; and at no moment of any run mode does a
\* data file hold, or a mark-paid call name, an invoice that carries one.
C3_ProblemInvoicesKeptApart ==
    \A p \in Procs :
        LET input == IdsOf(cmd[p].invoice_records)
            problem == IdsOf(cmd[p].problem_invoices)
            clean == IdsOf(cmd[p].parsed_invoices)
            in_problem(id) == id \in Range(problem)
            in_clean(id) == id \in Range(clean)
            both == cmd[p].problem_invoices \o cmd[p].parsed_invoices
        IN  /\ pc[p] = "sequence" =>
                  /\ Range(problem) \cap Range(clean) = {}
                  /\ SelectSeq(input, in_problem) = problem
                  /\ SelectSeq(input, in_clean) = clean
                  /\ Len(problem) + Len(clean) = Len(input)
            /\ \A i \in 1..Len(cmd[p].problem_invoices) :
                  Marked(cmd[p].problem_invoices[i])
            /\ \A i \in 1..Len(cmd[p].parsed_invoices) :
                  ~Marked(cmd[p].parsed_invoices[i])
            /\ \A i \in 1..Len(both) :
                  Marked(both[i]) =>
                      /\ \A e \in Range(Entries(p, "mark_paid")) :
                            e.invoice_id # both[i]["id"]
                      /\ \A lines \in DataFilesOf(p) :
                            ExternalReference(both[i]) \notin ReferencesIn(lines)

\* a final and real invocation has ended with a problem invoice set aside
\* and a clean one transmitted and marked
C3_Witness ==
    /\ pc[1] = "done"
    /\ FinalReal(1)
    /\ Len(cmd[1].problem_invoices) > 0
    /\ Len(Entries(1, "mark_paid")) > 0
    /\ \E lines \in DataFilesOf(1) : ReferencesIn(lines) # {}

\* the passes of the entries of p's trace that belong to a pass, in order
PassesOf(p) ==
    LET in_pass(e) == e.op # "ssm_get"
        entries == SelectSeq(trace[p], in_pass)
    IN  [i \in 1..Len(entries) |-> entries[i].pass]

\* C4: in one invocation the monograph pass comes first and the serial pass
\* begins only when the monograph pass has returned: no request of the
\* monograph pass follows one of the serial pass, and a serial pass exists
\* only after the monograph result.  The monograph pass runs under the stored
\* sequence number plus one and the serial pass under the monograph number
\* plus one.
C4_MonographThenSerial ==
    \A p \in Procs :
        LET passes == PassesOf(p)
            stored == Split(cmd[p].sap_sequence_parameter, ",")[1]
        IN  /\ \A i \in 1..Len(passes) : \A j \in i..Len(passes) :
                  ~(passes[i] = serial /\ passes[j] = monograph)
            /\ \A k \in 1..Len(cmd[p].results) :
                  cmd[p].results[k].invoices_type =
                      (IF k = 1 THEN monograph ELSE serial)
            /\ Len(cmd[p].results) <= 2
            /\ (frame[p].invoices_type = serial \/ serial \in Range(passes)) =>
                  /\ Len(cmd[p].results) >= 1
                  /\ cmd[p].results[1].invoices_type = monograph
            /\ frame[p].invoices_type = monograph => Len(cmd[p].results) <= 1
            /\ Len(cmd[p].monograph_sequence_number) > 0 =>
                  /\ IntOf(cmd[p].monograph_sequence_number) = IntOf(stored) + 1
                  /\ IntOf(cmd[p].serial_sequence_number) =
                        IntOf(cmd[p].monograph_sequence_number) + 1
            /\ frame[p].invoices_type # << >> =>
                  frame[p].sap_sequence_number =
                      PassSequenceNumber(p, frame[p].invoices_type)

\* both passes of a final and real invocation have made their requests
C4_Witness ==
    /\ pc[1] = "done"
    /\ FinalReal(1)
    /\ monograph \in Range(PassesOf(1))
    /\ serial \in Range(PassesOf(1))
    /\ Len(Entries(1, "mark_paid")) >= 2

\* C5: once an invocation has read a stored sequence value whose numeric
\* component has fewer than three digits, it has failed with SapSequenceError:
\* run was never entered (no file name, no file), nothing was transmitted,
\* stored, marked or mailed, and the stored value is the one it read.
C5_ShortSequenceStopsInvocation ==
    \A p \in Procs :
        (/\ Len(cmd[p].sap_sequence_parameter) > 0
         /\ Len(Split(cmd[p].sap_sequence_parameter, ",")[1]) < 3) =>
            /\ pc[p] = "failed"
            /\ cmd[p].exception = "SapSequenceError"
            /\ frame[p] = FrameStart
            /\ \A i \in 1..Len(trace[p]) : trace[p][i].op = "ssm_get"
            /\ \A i \in 1..Len(ssm_history) :
                  ssm_history[i].by = p => ssm_history[i].op = "get"
            /\ ssm_parameter = cmd[p].sap_sequence_parameter
            /\ alma_paid = {}

\* a final and real invocation has read "1,..." and failed
C5_Witness ==
    /\ pc[1] = "failed"
    /\ FinalReal(1)
    /\ cmd[1].exception = "SapSequenceError"
    /\ Len(Split(cmd[1].sap_sequence_parameter, ",")[1]) = 1

\* the indexes of the parameter store's history at which p read and wrote
ReadsOf(p) ==
    {i \in 1..Len(ssm_history) : ssm_history[i].by = p /\ ssm_history[i].op = "get"}

WritesOf(p) ==
    {i \in 1..Len(ssm_history) : ssm_history[i].by = p /\ ssm_history[i].op = "put"}

\* the paths under which p has transmitted files
PathsOf(p) == {e.path : e \in Range(Entries(p, "sftp_put"))}

\* C6: of two final and real invocations running together, a read of the
\* stored sequence value that comes after the other invocation's read and
\* before any update is stored returns the value the other invocation read;
\* and two invocations that have read the same stored value work under the
\* same sequence numbers and transmit their files under the same names.
C6_SameReadSameNames ==
    \A p \in Procs : \A q \in Procs \ {p} :
        /\ \A i \in ReadsOf(p) : \A j \in ReadsOf(q) :
              (/\ i < j
               /\ \A k \in i..j : ssm_history[k].op = "get") =>
                  ssm_history[j].value = ssm_history[i].value
        /\ (/\ Len(cmd[p].sap_sequence_parameter) > 0
            /\ cmd[p].sap_sequence_parameter = cmd[q].sap_sequence_parameter) =>
              /\ cmd[p].monograph_sequence_number = cmd[q].monograph_sequence_number
              /\ cmd[p].serial_sequence_number = cmd[q].serial_sequence_number
              /\ \A e \in Range(Entries(p, "sftp_put")) :
                    \A x \in Range(Entries(q, "sftp_put")) :
                        (e.pass = x.pass /\ e.file = x.file) => e.path = x.path

\* the second invocation read before the first one stored anything, and both
\* have transmitted a data and a control file under the same two names
C6_Witness ==
    \E p \in Procs : \E q \in Procs \ {p} :
        /\ \E i \in ReadsOf(p) : \E j \in ReadsOf(q) :
              /\ i < j
              /\ \A k \in WritesOf(p) : j < k
        /\ WritesOf(p) # {}
        /\ Cardinality(PathsOf(p) \cap PathsOf(q)) >= 2
        /\ cmd[p].monograph_sequence_number = cmd[q].monograph_sequence_number

\* C7: mark_invoices_paid has called mark-paid for the first index - 1
\* invoices of its list, one call each and in list order, whatever the
\* earlier calls answered; its count is the number of those calls that did
\* not raise; and the loop ends only when every invoice of the list has had
\* its call.
C7_MarkEveryInvoice ==
    \A p \in Procs :
        frame[p].index >= 1 =>
            LET f == frame[p]
                marks == EntriesOfPass(p, "mark_paid", f.invoices_type)
                returned(e) == mark_invoice_paid(e.answer).err = "none"
            IN  /\ Len(marks) = f.index - 1
                /\ Len(marks) <= Len(f.invoices)
                /\ \A i \in 1..Len(marks) :
                      marks[i].invoice_id = f.invoices[i]["id"]
                /\ f.paid_invoice_count = Len(SelectSeq(marks, returned))
                /\ pc[p] # "mark_paid" => Len(marks) = Len(f.invoices)

\* the first call failed with a request error, the loop went on and the
\* second call was counted
C7_Witness ==
    LET marks == EntriesOfPass(1, "mark_paid", frame[1].invoices_type)
    IN  /\ frame[1].index = 3
        /\ Len(marks) = 2
        /\ marks[1].answer.http_error
        /\ ~marks[2].answer.http_error
        /\ frame[1].paid_invoice_count = 1

\* C8: a mark-paid request that upstream answers with a payment status other
\* than PAID makes AlmaClient.mark_invoice_paid raise ValueError, and
\* mark_invoices_paid logs the invoice as failed.
C8_NonPaidAnswerRaises ==
    \A p \in Procs :
        \A e \in Range(Entries(p, "mark_paid")) :
            (/\ ~e.answer.http_error
             /\ e.answer.json.payment.payment_status.value # "PAID") =>
                /\ mark_invoice_paid(e.answer).err = "ValueError"
                /\ e.failure_logged

Max(a, b) == IF a > b THEN a ELSE b

\* what holds of get_paged at every moment, against an upstream that holds T
\* records and serves the page asked for: the k-th request is at offset
\* (k - 1) * limit; the records yielded so far are the first min(k * limit, T)
\* records upstream holds, each once and in upstream order; get_paged is
\* finished as soon as it has retrieved T records, having yielded all of
\* them; with limit >= 1 that takes max(1, ceil(T / limit)) requests
PagedRetrievalSoFar ==
    LET g == paged.g
        held == paged.held
        T == Len(held)
    IN  /\ \A k \in 1..Len(g.requests) : g.requests[k] = (k - 1) * g.limit
        /\ g.yielded = SubSeq(held, 1, Len(g.yielded))
        /\ g.records_retrieved = Len(g.yielded)
        /\ Len(g.yielded) = Min(Len(g.requests) * g.limit, T)
        /\ g.done => g.yielded = held
        /\ (Len(g.requests) >= 1 /\ g.records_retrieved >= T) => g.done
        /\ g.limit >= 1 =>
              /\ Len(g.requests) <= Max(1, (T + g.limit - 1) \div g.limit)
              /\ g.done <=>
                    Len(g.requests) = Max(1, (T + g.limit - 1) \div g.limit)

\* C9: against an upstream that holds T records and serves the page asked
\* for, a call of get_paged comes to its end having requested the offsets
\* 0, limit, 2 * limit, ... and yielded each of the T records exactly once,
\* in upstream order, with no request after the one that brought the number
\* of records retrieved to T.
C9_EveryRecordYieldedOnce ==
    <>(/\ paged.g.done
       /\ paged.g.yielded = paged.held
       /\ \A k \in 1..Len(paged.g.requests) :
             paged.g.requests[k] = (k - 1) * paged.g.limit)

Count(x, seq) == Cardinality({i \in 1..Len(seq) : seq[i] = x})

\* upstream has a payment address for the vendor / a record for the fund
VendorResolves(vendor_code) == populate_vendor_data(vendor_code).err = "none"

FundResolves(fund_code) == get_fund_by_code(fund_code)["total_record_count"] # 0

FundCodesOf(invoice_record) ==
    LET distributions ==
            FlattenLines(invoice_record["invoice_lines"]["invoice_line"])
    IN  [i \in 1..Len(distributions) |-> distributions[i]["fund_code"]["value"]]

\* of those, the ones upstream has no record for
UnresolvedCodesOf(invoice_record) ==
    LET unresolved(code) == ~FundResolves(code)
    IN  SelectSeq(FundCodesOf(invoice_record), unresolved)

\* the invoices of a list that were made from the raw record with this id
WithId(invoices, id) ==
    LET is(invoice) == invoice["id"] = id
    IN  SelectSeq(invoices, is)

\* C11: a fund code upstream has no record for does not make the parser
\* fail.  The invoice that names such codes is in the problem list and not in
\* the clean one, its fund_errors lists those codes in the order the record
\* names them, it has no funds, and the parser goes through the records that
\* follow; an invoice whose codes all resolve has no fund_errors.  The loop
\* is left early only by a record that lacks a mandatory field.
C11_FundErrorsSetAside ==
    LET ps == parsing.ps
    IN  /\ ps.err # "none" =>
              /\ ps.err = "KeyError"
              /\ ~HasMandatoryFields(parsing.invoice_records[parsing.index])
        /\ \A k \in 1..parsing.index :
              LET record == parsing.invoice_records[k]
                  problem == WithId(ps.problem_invoices, record["id"])
                  clean == WithId(ps.parsed_invoices, record["id"])
              IN  HasMandatoryFields(record) =>
                      IF UnresolvedCodesOf(record) # << >> THEN
                          /\ Len(problem) = 1 /\ Len(clean) = 0
                          /\ "fund_errors" \in DOMAIN problem[1]
                          /\ problem[1]["fund_errors"] = UnresolvedCodesOf(record)
                          /\ "funds" \notin DOMAIN problem[1]
                      ELSE
                          \A invoice \in Range(problem \o clean) :
                              /\ "fund_errors" \notin DOMAIN invoice
                              /\ "funds" \in DOMAIN invoice

\* a record that names the same missing fund on two lines, and a found one
\* between them, was set aside and the record after it was parsed
C11_Witness ==
    /\ parsing.invoice_records = <<R05, R07>>
    /\ parsing.index = 2
    /\ Len(parsing.ps.problem_invoices) = 1
    /\ parsing.ps.problem_invoices[1]["fund_errors"] = <<FX, FX>>
    /\ IdsOf(parsing.ps.parsed_invoices) = <<R07["id"]>>

\* C12: the fund cache of a call of parse_invoice_records holds at every
\* moment only codes upstream has a record for, each with that record.  A
\* turn of the loop never takes a code out of the cache nor changes its
\* record, and adds exactly the codes of its record that upstream finds,
\* whether or not the record also names a code that is not found: a failed
\* lookup adds nothing.  A code in the cache was asked of upstream once.
C12_CacheHoldsOnlyFound ==
    /\ [](LET ps == parsing.ps
          IN  /\ \A code \in DOMAIN ps.retrieved_funds :
                    /\ FundResolves(code)
                    /\ ps.retrieved_funds[code] = get_fund_by_code(code)
                    /\ Count(code, ps.fund_requests) = 1
              /\ \A k \in 1..parsing.index :
                    HasMandatoryFields(parsing.invoice_records[k]) =>
                        \A code \in Range(FundCodesOf(parsing.invoice_records[k])) :
                            FundResolves(code) => code \in DOMAIN ps.retrieved_funds)
    /\ [][LET before == parsing.ps.retrieved_funds
              after == parsing'.ps.retrieved_funds
              record == parsing.invoice_records[parsing.index + 1]
          IN  /\ \A code \in DOMAIN before :
                    code \in DOMAIN after /\ after[code] = before[code]
              /\ (DOMAIN after) \ (DOMAIN before) \subseteq
                    {code \in Range(FundCodesOf(record)) : FundResolves(code)}
              /\ (Len(parsing'.ps.fund_requests) > Len(parsing.ps.fund_requests)
                  /\ \A code \in Range(SubSeq(parsing'.ps.fund_requests,
                                              Len(parsing.ps.fund_requests) + 1,
                                              Len(parsing'.ps.fund_requests))) :
                        ~FundResolves(code))
                 => after = before]_vars

\* the record that names a missing fund twice has left the fund it names
\* between them in the cache, and the missing one out of it
C12_Witness ==
    /\ parsing.invoice_records = <<R05, R07>>
    /\ parsing.index >= 1
    /\ F1 \in DOMAIN parsing.ps.retrieved_funds
    /\ FX \notin DOMAIN parsing.ps.retrieved_funds
    /\ Count(FX, parsing.ps.fund_requests) = 2

\* the external id upstream holds for a fund code it finds, without the
\* blanks around it
ExternalIdOf(fund_code) ==
    LET text == get_fund_by_code(fund_code)["fund"][1]["external_id"]
        inner == {i \in 1..Len(text) : text[i] # " "}
    IN  IF inner = {} THEN << >>
        ELSE SubSeq(text, CHOOSE i \in inner : \A j \in inner : i <= j,
                          CHOOSE i \in inner : \A j \in inner : i >= j)

\* the fund distributions a record names, line after line
DistributionsOf(invoice_record) ==
    LET lines == invoice_record["invoice_lines"]["invoice_line"]
        RECURSIVE from(_)
        from(k) == IF k > Len(lines) THEN << >>
                   ELSE lines[k]["fund_distribution"] \o from(k + 1)
    IN  from(1)

\* the amounts of the distributions of a record that go to one external id
AmountsFor(invoice_record, external_id) ==
    LET distributions == DistributionsOf(invoice_record)
        to_id(d) == ExternalIdOf(d["fund_code"]["value"]) = external_id
        chosen == SelectSeq(distributions, to_id)
    IN  [i \in 1..Len(chosen) |-> chosen[i]["amount"]]

\* C13: for a record whose fund codes all resolve, populate_fund_data
\* returns one allocation for each external id the codes resolve to and no
\* other; its amount is the sum of the amounts of the distributions that
\* resolve to that external id, so that the allocations add up to the total
\* of the distributions; the allocations are in ascending order of external
\* id; cost object and G/L account are what stands before and after the "-"
\* of the external id.
C13_OneAllocationPerExternalId ==
    (/\ call.function = "populate_fund_data"
     /\ call.returned
     /\ \A d \in Range(DistributionsOf(call.invoice_record)) :
           FundResolves(d["fund_code"]["value"]))
    =>
    LET record == call.invoice_record
        distributions == DistributionsOf(record)
        ids == {ExternalIdOf(d["fund_code"]["value"]) : d \in Range(distributions)}
    IN  /\ call.result.err = "none"
        /\ LET funds == call.result.funds
           IN  /\ Len(funds) = Cardinality(ids)
               /\ {funds[i][1] : i \in 1..Len(funds)} = ids
               /\ \A i \in 1..Len(funds) :
                     /\ funds[i][2]["amount"] = SumSeq(AmountsFor(record, funds[i][1]))
                     /\ funds[i][1] = funds[i][2]["cost object"] \o <<"-">>
                                          \o funds[i][2]["G/L account"]
                     /\ "-" \notin Range(funds[i][2]["cost object"])
                     /\ "-" \notin Range(funds[i][2]["G/L account"])
               /\ \A i \in 1..Len(funds) : \A j \in (i + 1)..Len(funds) :
                     StrLess(funds[i][1], funds[j][1])
               /\ SumSeq([i \in 1..Len(funds) |-> funds[i][2]["amount"]])
                     = SumSeq([i \in 1..Len(distributions) |->
                                  distributions[i]["amount"]])

\* three distributions on two lines, two of them to the same external id
\* under different fund codes, came back as two allocations, the smaller
\* external id first although it was named last
C13_Witness ==
    /\ call.function = "populate_fund_data"
    /\ call.returned
    /\ call.invoice_record["invoice_lines"]["invoice_line"] =
          << [fund_distribution |-> <<FundDist(F1, 100)>>],
             [fund_distribution |-> <<FundDist(F3, 250), FundDist(F0, 250)>>] >>
    /\ call.result.err = "none"
    /\ Len(call.result.funds) = 2
    /\ call.result.funds[1][1] = <<"1", "1", "-", "9">>
    /\ call.result.funds[2][2]["amount"] = 350

\* upstream's record of the vendor has no address
HasNoAddress(vendor_code) ==
    LET vendor_record == get_vendor_details(vendor_code)
    IN  \/ "contact_info" \notin DOMAIN vendor_record
        \/ "address" \notin DOMAIN vendor_record["contact_info"]
        \/ Len(vendor_record["contact_info"]["address"]) = 0

\* C14: every invoice of a vendor that has no address, the first of the
\* batch like the later ones, is in the problem list and not in the clean
\* one, with vendor_address_error equal to the vendor code and without
\* vendor; the parser does not fail on it and goes on to the records that
\* follow.  An invoice of a vendor that has an address carries vendor and no
\* vendor_address_error.
C14_NoAddressVendorSetAside ==
    LET ps == parsing.ps
    IN  /\ ps.err \in {"none", "KeyError"}
        /\ \A k \in 1..parsing.index :
              LET record == parsing.invoice_records[k]
                  problem == WithId(ps.problem_invoices, record["id"])
                  clean == WithId(ps.parsed_invoices, record["id"])
              IN  HasMandatoryFields(record) =>
                      /\ Len(problem) + Len(clean) = 1
                      /\ IF HasNoAddress(record["vendor"]["value"]) THEN
                             /\ Len(problem) = 1
                             /\ "vendor_address_error" \in DOMAIN problem[1]
                             /\ problem[1]["vendor_address_error"]
                                   = record["vendor"]["value"]
                             /\ "vendor" \notin DOMAIN problem[1]
                         ELSE
                             \A invoice \in Range(problem \o clean) :
                                 /\ "vendor_address_error" \notin DOMAIN invoice
                                 /\ "vendor" \in DOMAIN invoice
                                 /\ invoice["vendor"]["code"]
                                       = record["vendor"]["value"]

\* two invoices of the vendor without address have both been set aside, and
\* upstream was asked for the vendor both times
C14_Witness ==
    /\ parsing.invoice_records = <<R04, R08>>
    /\ parsing.index = 2
    /\ Len(parsing.ps.problem_invoices) = 2
    /\ parsing.ps.problem_invoices[2]["vendor_address_error"] = VNOA
    /\ parsing.ps.vendor_requests = <<VNOA, VNOA>>

(***************************************************************************)
(* The payment address of a vendor (C15).                                  *)
(***************************************************************************)
\* one of the address types of the address is the payment type
CarriesPaymentType(address) ==
    \E type \in Range(address["address_type"]) : type["value"] = payment

EncodedLength(c) ==
    CASE c = "U+00E9" -> 2
      [] c = "U+2011" -> 3
      [] OTHER -> 1

\* the positions of the characters of a text that take more than one byte
MultibytePositions(text) == {i \in 1..Len(text) : EncodedLength(text[i]) > 1}

\* the three fields of the invoice that hold any text, with their paths
TextFields(invoice) ==
    << [path |-> << <<"number">> >>, text |-> invoice["number"]],
       [path |-> << <<"vendor">>, <<"name">> >>, text |-> invoice["vendor"]["name"]],
       [path |-> << <<"vendor">>, <<"address">>, <<"lines">>, <<"1">> >>,
        text |-> invoice["vendor"]["address"]["lines"][2]] >>

\* C16: check_for_multibyte reports each occurrence of a multi-byte
\* character in a string value of the invoice, at the top level, in a nested
\* dict or in a list of a nested dict, once for each position it occurs at
\* and with the path of the field that holds it, and reports nothing else:
\* nothing at all when the invoice has no such character.  In the parser an
\* invoice with a reported occurrence carries the report as multibyte_errors
\* and joins problem_invoices and not parsed_invoices; this invoice, which
\* has no other error, joins parsed_invoices when nothing is reported.
C16_EveryMultibyteOccurrence ==
    (call.function = "check_for_multibyte" /\ call.returned) =>
        LET fields == TextFields(call.invoice)
            occurrences == {<<f, i>> \in (1..Len(fields)) \X (1..MaxTextLen + 1) :
                               i \in MultibytePositions(fields[f].text)}
        IN  /\ Len(call.result) = Cardinality(occurrences)
            /\ \A f \in 1..Len(fields) : \A c \in {"U+00E9", "U+2011"} :
                  Count([field |-> fields[f].path, character |-> c], call.result)
                      = Cardinality({i \in MultibytePositions(fields[f].text) :
                                        fields[f].text[i] = c})
            /\ IF occurrences # {} THEN
                   /\ Len(call.ps.parsed_invoices) = 0
                   /\ Len(call.ps.problem_invoices) = 1
                   /\ call.ps.problem_invoices[1]["multibyte_errors"] = call.result
               ELSE
                   /\ Len(call.ps.problem_invoices) = 0
                   /\ call.ps.parsed_invoices = <<call.invoice>>

\* an invoice whose number is the same three-byte character twice and whose
\* second address line has a two-byte character after a one-byte one: three
\* occurrences reported, and the invoice set aside
C16_Witness ==
    /\ call.function = "check_for_multibyte"
    /\ call.returned
    /\ call.invoice["number"] = <<"U+2011", "U+2011">>
    /\ call.invoice["vendor"]["name"] = <<"-">>
    /\ call.invoice["vendor"]["address"]["lines"][2] = <<"-", "U+00E9">>
    /\ Len(call.result) = 3
    /\ Len(call.ps.problem_invoices) = 1

(***************************************************************************)
(* Invocations that end before the runs (C17, C18).                        *)
(***************************************************************************)
\* the invocation has made no request to the parameter store, the SAP
\* dropbox, the mail service or upstream's mark-paid endpoint, has logged
\* nothing in the place of one and has generated no file
NothingSentOrGenerated(p) ==
    /\ trace[p] = << >>
    /\ \A e \in Range(ssm_history) : e.by # p
    /\ cmd[p].sap_sequence_parameter = << >>
    /\ cmd[p].results = << >>
    /\ frame[p] = FrameStart

\* C17: when a record of the batch lacks a mandatory field,
\* parse_invoice_records raises KeyError and process_invoices ends with it:
\* no problem list and no clean list come back, whatever records were gone
\* through before, the sequence parameter is not read, no file is generated
\* and nothing is written to an external service.  Without such a record the
\* parser returns its two lists.
C17_MissingFieldPropagates ==
    \A p \in Procs :
        LET records == cmd[p].invoice_records
            lacking == {k \in 1..Len(records) : ~HasMandatoryFields(records[k])}
        IN  /\ (pc[p] \notin {"idle", "retrieve", "parse", "aborted"}
                /\ lacking # {}) =>
                   /\ pc[p] = "failed"
                   /\ cmd[p].exception = "KeyError"
            /\ (pc[p] = "failed" /\ cmd[p].exception = "KeyError") =>
                   /\ lacking # {}
                   /\ cmd[p].problem_invoices = << >>
                   /\ cmd[p].parsed_invoices = << >>
                   /\ cmd[p].monograph_invoices = << >>
                   /\ cmd[p].serial_invoices = << >>
                   /\ NothingSentOrGenerated(p)
                   /\ alma_paid = {}
            /\ (pc[p] \notin {"idle", "retrieve", "parse", "aborted"}
                /\ lacking = {}) =>
                   Len(cmd[p].problem_invoices) + Len(cmd[p].parsed_invoices)
                       = Len(records)

\* the invocation has failed on the second of two records, after it had
\* asked upstream for the vendor and the fund of the first
C17_Witness ==
    /\ pc[1] = "failed"
    /\ cmd[1].exception = "KeyError"
    /\ IdsOf(cmd[1].invoice_records) = <<R02["id"], R09["id"]>>
    /\ cmd[1].vendor_requests = <<VAAA>>
    /\ cmd[1].fund_requests = <<F1>>
    /\ cmd[1].parsed_invoices = << >>

\* C18: an invocation whose retrieval yields no invoice aborts there, and
\* only such an invocation aborts: it parses nothing, asks upstream for no
\* vendor and no fund, does not read the sequence parameter, generates no
\* file, sends no e-mail, transmits nothing, does not update the sequence
\* and marks no invoice paid.
C18_NoInvoicesAbort ==
    \A p \in Procs :
        /\ (pc[p] \notin {"idle", "retrieve"} /\ Len(cmd[p].invoice_records) = 0) =>
              /\ pc[p] = "aborted"
              /\ cmd[p].vendor_requests = << >>
              /\ cmd[p].fund_requests = << >>
              /\ cmd[p].problem_invoices = << >>
              /\ cmd[p].parsed_invoices = << >>
              /\ cmd[p].exception = "none"
              /\ NothingSentOrGenerated(p)
              /\ alma_paid = {}
        /\ pc[p] = "aborted" => Len(cmd[p].invoice_records) = 0

\* upstream had no invoice waiting and the invocation has aborted
C18_Witness ==
    /\ alma_invoices = << >>
    /\ pc[1] = "aborted"
    /\ cmd[1].invoice_records = << >>

(***************************************************************************)
(* The split of a list of invoices (C19).                                  *)
(***************************************************************************)
\* the positions in items of the elements of group, when group is made of
\* elements of items in the order of items; << >> otherwise
PositionsIn(group, items) ==
    LET fits(positions) ==
            /\ \A k \in 1..Len(group) : items[positions[k]] = group[k]
            /\ \A k \in 1..(Len(group) - 1) : positions[k] < positions[k + 1]
        fitting == {positions \in [1..Len(group) -> 1..Len(items)] : fits(positions)}
    IN  IF fitting = {} THEN << >> ELSE CHOOSE positions \in fitting : TRUE

\* C19: each of the two groups split_invoices_by_field_value returns is made
\* of items of the input in input order, and no item is in both.  group_a
\* holds exactly the items whose field equals value_a.  With value_b omitted
\* group_b holds exactly the items whose field differs from value_a, so that
\* every item is in exactly one group and the counts run returns satisfy sap
\* invoices + other invoices = total invoices; with value_b given group_b
\* holds exactly the items whose field equals value_b and not value_a, and an
\* item whose field equals neither value is in neither group.
C19_SplitIsStablePartition ==
    (call.function = "split_invoices_by_field_value" /\ call.returned) =>
        LET items == call.invoices
            value(i) == items[i][call.field]
            in_a == Range(PositionsIn(call.result[1], items))
            in_b == Range(PositionsIn(call.result[2], items))
        IN  /\ Cardinality(in_a) = Len(call.result[1])
            /\ Cardinality(in_b) = Len(call.result[2])
            /\ in_a \cap in_b = {}
            /\ in_a = {i \in 1..Len(items) : value(i) = call.first_value}
            /\ IF call.second_value = None THEN
                   /\ in_b = {i \in 1..Len(items) : value(i) # call.first_value}
                   /\ in_a \cup in_b = 1..Len(items)
                   /\ call.counts.sap_invoices + call.counts.other_invoices
                         = call.counts.total_invoices
               ELSE
                   /\ in_b = {i \in 1..Len(items) :
                                 /\ value(i) = call.second_value
                                 /\ value(i) # call.first_value}
                   /\ \A i \in 1..Len(items) :
                         value(i) \notin {call.first_value, call.second_value}
                             => i \notin in_a \cup in_b

\* what holds of the counts every call of run has returned to
\* process_invoices
RunResultsAddUp ==
    \A p \in Procs : \A k \in 1..Len(cmd[p].results) :
        cmd[p].results[k].sap_invoices + cmd[p].results[k].other_invoices
            = cmd[p].results[k].total_invoices

\* four invoices of three payment methods were split with the second value
\* given: two in the first group, one in the second, one in neither
C19_Witness ==
    /\ call.function = "split_invoices_by_field_value"
    /\ call.returned
    /\ call.second_value = CORRECTION
    /\ IdsOf(call.result[1]) = << <<"2">>, <<"4">> >>
    /\ IdsOf(call.result[2]) = << <<"3">> >>
    /\ Len(call.invoices) = 4

(***************************************************************************)
(* The lines of the data file (C20).                                       *)
(***************************************************************************)
\* the number of the line that holds the B record of the j-th invoice, when
\* every invoice has one B line and one line per fund allocation
LineOfInvoice(invoices, j) ==
    1 + SumSeq([i \in 1..(j - 1) |-> 1 + Len(invoices[i]["funds"])])

\* C20: the data generate_sap_data returns is made, invoice after invoice in
\* the order of the list, of one line tagged B for the invoice and then one
\* line for each of its fund allocations in their order, the last of them
\* tagged D and those before it C.  So every line is tagged B, C or D, and
\* between the B line of an invoice that has a fund and the next B line, or
\* the end of the data, stand lines tagged C, as many as there are, and then
\* exactly one line tagged D.
C20_BThenCsThenD ==
    (call.function = "generate_sap_data" /\ call.returned) =>
        LET invoices == call.invoices
            lines == call.result.lines
            tagged_B == {n \in 1..Len(lines) : lines[n].tag = "B"}
        IN  /\ call.result.err = "none"
            /\ Len(lines) = LineOfInvoice(invoices, Len(invoices) + 1) - 1
            /\ \A n \in 1..Len(lines) : lines[n].tag \in {"B", "C", "D"}
            /\ \A j \in 1..Len(invoices) :
                  LET first == LineOfInvoice(invoices, j)
                      funds == invoices[j]["funds"]
                  IN  /\ lines[first].tag = "B"
                      /\ lines[first].external_reference =
                            PadTrunc(invoices[j]["number"]
                                     \o strftime_ymd(invoices[j]["date"]), 16)
                      /\ \A k \in 1..Len(funds) :
                            /\ lines[first + k].tag =
                                  (IF k = Len(funds) THEN "D" ELSE "C")
                            /\ lines[first + k].amount = funds[k][2]["amount"]
                            /\ lines[first + k].cost_object =
                                  PadTrunc(funds[k][2]["cost object"], 12)
                            /\ lines[first + k].gl_account =
                                  PadTrunc(funds[k][2]["G/L account"], 10)
            /\ Cardinality(tagged_B) = Len(invoices)
            /\ \A b \in tagged_B :
                  LET later == {n \in tagged_B : n > b} \cup {Len(lines) + 1}
                      next == CHOOSE n \in later : \A m \in later : n <= m
                      j == CHOOSE i \in 1..Len(invoices) :
                               LineOfInvoice(invoices, i) = b
                  IN  Len(invoices[j]["funds"]) > 0 =>
                          /\ next > b + 1
                          /\ lines[next - 1].tag = "D"
                          /\ \A n \in (b + 1)..(next - 2) : lines[n].tag = "C"

\* three invoices with three funds, none and one: B C C D, B, B D
C20_Witness ==
    /\ call.function = "generate_sap_data"
    /\ call.returned
    /\ Len(call.invoices) = 3
    /\ call.result.err = "none"
    /\ [n \in 1..Len(call.result.lines) |-> call.result.lines[n].tag]
          = <<"B", "C", "C", "D", "B", "B", "D">>

\* the bytes of the data file of a list of invoices, counted from the layout:
\* 311 characters and a newline for a B record, 40 and a newline for a C or D
\* record, and the further bytes of the multi-byte characters of the name
DataBytesOf(invoices) ==
    SumSeq([i \in 1..Len(invoices) |->
              312 + 41 * Len(invoices[i]["funds"])
                  + SumSeq([k \in 1..Len(invoices[i]["vendor"]["name"]) |->
                              UTF8Len(invoices[i]["vendor"]["name"][k]) - 1])])

\* the B, C and D records of the data file of a list of invoices
RecordsOf(invoices) ==
    SumSeq([i \in 1..Len(invoices) |-> 1 + Len(invoices[i]["funds"])])

\* C21: generate_sap_control returns one record of 113 characters ended by a
\* newline: the byte length of the data in 16 zero-padded digits, its number
\* of lines (the number of B, C and D records) in 16 zero-padded digits, 20
\* zeros, the invoice total in cents in 20 zero-padded digits, the same 20
\* digits again, and the trailer 00100100000000000000
C21_ControlRecordLayout ==
    (call.function = "generate_sap_control" /\ call.returned) =>
        LET record == call.result
        IN  /\ Len(record) = 113
            /\ record[113] = "\n"
            /\ \A i \in 1..112 : IsDigit(record[i])
            /\ IntOf(SubSeq(record, 1, 16)) = DataBytesOf(call.invoices)
            /\ IntOf(SubSeq(record, 17, 32)) = RecordsOf(call.invoices)
            /\ IntOf(SubSeq(record, 17, 32))
                   = generate_sap_control(
                         generate_sap_data(Today, call.invoices).lines,
                         call.invoice_total).line_count
            /\ \A i \in 33..52 : record[i] = "0"
            /\ IntOf(SubSeq(record, 53, 72)) = call.invoice_total
            /\ SubSeq(record, 73, 92) = SubSeq(record, 53, 72)
            /\ SubSeq(record, 93, 112)
                   = <<"0", "0", "1", "0", "0", "1", "0", "0", "0", "0",
                       "0", "0", "0", "0", "0", "0", "0", "0", "0", "0">>

\* a control record was made for two invoices with a multi-byte vendor name
\* and several allocations, with a total of 1367.40
C21_Witness ==
    /\ call.function = "generate_sap_control"
    /\ call.returned
    /\ Len(call.invoices) = 2
    /\ Len(call.invoices[1]["funds"]) = 2
    /\ call.invoices[1]["vendor"]["name"] = <<"U+00E9">>
    /\ call.invoice_total = 136740
    /\ IntOf(SubSeq(call.result, 1, 16)) > Len(call.sap_data_file)

(***************************************************************************)
(* The summary and the files of one call of run.                           *)
(***************************************************************************)
\* the k-th smallest element of a set of positions
Kth(positions, k) ==
    CHOOSE i \in positions : Cardinality({j \in positions : j < i}) = k - 1

\* C22: in every call of run the summary has one line for each invoice whose
\* payment method is ACCOUNTINGDEPARTMENT, in the order of the list, its
\* invoice count is their number and its total payment the sum of their total
\* amounts; each other invoice stands once in the excluded trailer and in no
\* line.  The invoices counted are those run keeps as sap_invoices: in a
\* final run the data file has one B record for each of them and the control
\* file carries the same total.
C22_SummaryCountsSapInvoices ==
    \A p \in Procs :
        frame[p].summary # << >> =>
            LET f == frame[p]
                invoices == f.invoices
                summary == f.summary
                eligible == {i \in 1..Len(invoices) :
                                invoices[i]["payment method"] = ACCOUNTINGDEPARTMENT}
                others == (1..Len(invoices)) \ eligible
                b_lines == SelectSeq(f.data_file_contents,
                                     LAMBDA line : line.tag = "B")
            IN  /\ Len(summary.lines) = Cardinality(eligible)
                /\ summary.invoice_count = Cardinality(eligible)
                /\ summary.total_payment
                       = SumSeq([i \in 1..Len(invoices) |->
                                   IF i \in eligible
                                   THEN invoices[i]["total amount"] ELSE 0])
                /\ \A k \in 1..Len(summary.lines) :
                      LET invoice == invoices[Kth(eligible, k)]
                      IN  /\ summary.lines[k].amount = invoice["total amount"]
                          /\ summary.lines[k].reference
                                 = PadTrunc(invoice["number"]
                                               \o strftime_ymd(invoice["date"]), 20)
                          /\ f.sap_invoices[k] = invoice
                /\ Len(summary.excluded_invoices) = Cardinality(others)
                /\ \A k \in 1..Len(summary.excluded_invoices) :
                      /\ summary.excluded_invoices[k].number
                             = invoices[Kth(others, k)]["number"]
                      /\ f.other_payment_invoices[k] = invoices[Kth(others, k)]
                /\ Len(f.sap_invoices) = summary.invoice_count
                /\ f.control_file_contents # << >> =>
                      /\ f.control_file_contents.debit_total = summary.total_payment
                      /\ Len(b_lines) = summary.invoice_count
                      /\ \A k \in 1..Len(b_lines) :
                            b_lines[k].external_reference
                                = SubSeq(summary.lines[k].reference, 1, 16)

\* a final run made the summary and the files of a list that holds an
\* invoice for SAP and an invoice of another payment method
C22_Witness ==
    \E p \in Procs :
        /\ frame[p].control_file_contents # << >>
        /\ frame[p].summary.invoice_count = 1
        /\ Len(frame[p].summary.excluded_invoices) = 1
        /\ Len(frame[p].data_file_contents) > 1

(***************************************************************************)
(* Two calls of parse_invoice_records.                                      *)
(***************************************************************************)
\* the call of parse_invoice_records in progress is the second one
SecondCall == call.function = "parse_invoice_records"

\* the call of parse_invoice_records in progress has returned or raised
CallOver ==
    \/ parsing.index = Len(parsing.invoice_records)
    \/ parsing.ps.err # "none"

NumericComponent(parameter) ==
    LET commas == {i \in 1..Len(parameter) : parameter[i] = ","}
        first == IF commas = {} THEN Len(parameter) + 1
                 ELSE CHOOSE i \in commas : \A j \in commas : i <= j
    IN  SubSeq(parameter, 1, first - 1)

\* value is the decimal string of n: its digits amount to n and it has no
\* leading zero
IsDecimalOf(value, n) ==
    /\ IsNumeric(value)
    /\ IntOf(value) = n
    /\ Len(value) > 1 => value[1] # "0"

\* C24: generate_next_sap_sequence_number leaves the stored parameter as it
\* is and, when it returns, returns the decimal string of the stored numeric
\* component plus one; update_sap_sequence(s, date, tag) stores s, a comma,
\* the date as YYYYMMDD followed by 000000, a comma and tag; so a read after
\* an update with a digit string s of three or more characters returns
\* int(s) + 1.
C24_UpdateThenReadIsNext ==
    /\ (call.function = "generate_next_sap_sequence_number" /\ call.updated) =>
          /\ call.returned => ssm_parameter = call.read
          /\ ssm_parameter
                 = call.sap_sequence_number
                   \o <<",", "2", "0", "2", "2", "0", "1", "1", "1",
                        "0", "0", "0", "0", "0", "0", ",">>
                   \o call.sequence_type
          /\ (call.returned /\ Len(call.sap_sequence_number) >= 3) =>
                /\ call.result.err = "none"
                /\ IsDecimalOf(call.result.value,
                               IntOf(call.sap_sequence_number) + 1)
    /\ (call.function = "generate_next_sap_sequence_number" /\ call.returned) =>
          /\ ssm_parameter = call.read
          /\ call.result.err = "none" =>
                IsDecimalOf(call.result.value,
                            IntOf(NumericComponent(ssm_parameter)) + 1)

\* the parameter was updated with 0099 and the read that followed gave 100
C24_Witness ==
    /\ call.function = "generate_next_sap_sequence_number"
    /\ call.updated
    /\ call.returned
    /\ call.sap_sequence_number = <<"0", "0", "9", "9">>
    /\ call.result.err = "none"
    /\ call.result.value = <<"1", "0", "0">>

(***************************************************************************)
(* The order of the external steps of one pass of run.                      *)
(***************************************************************************)
\* the place of an external request among the steps of a final, real pass;
\* 0 for what is no such step
StepRank(entry) ==
    IF entry.op = "sftp_put" THEN (IF entry.file = "data" THEN 1 ELSE 2)
    ELSE IF entry.op = "ssm_put" THEN 3
    ELSE IF entry.op = "mark_paid" THEN 4
    ELSE IF entry.op = "email" THEN 5
    ELSE 0

\* the steps invocation p has performed for the invoices of one type, in the
\* order it performed them
StepsOfPass(p, invoices_type) ==
    LET of_pass(entry) ==
            /\ StepRank(entry) > 0
            /\ entry.pass = invoices_type
    IN  SelectSeq(trace[p], of_pass)

\* the invoices invocation p handles in the pass of one type
InvoicesOfPass(p, invoices_type) ==
    IF invoices_type = monograph THEN cmd[p].monograph_invoices
    ELSE cmd[p].serial_invoices

\* the steps of a complete pass over n invoices
AllSteps(n) == <<1, 2, 3>> \o [i \in 1..n |-> 4] \o <<5>>

\* C25: in a final, real invocation the steps performed for the invoices of
\* one type are always a beginning of: data file transmitted, control file
\* transmitted, sequence persisted, each invoice of the type marked paid in
\* turn, e-mail sent.  So an invoice is paid only after both files of its
\* type were transmitted and the sequence was persisted; after a failed
\* transmission the invocation has persisted no sequence and marked no
\* invoice of that type; and once a step has raised, the invocation sends
\* nothing more and neither the stored sequence nor the paid invoices change.
C25_StepsInOrder ==
    /\ [](\A p \in Procs : (cmd[p].final_run /\ cmd[p].real_run) =>
            /\ \A invoices_type \in {monograph, serial} :
                  LET steps == StepsOfPass(p, invoices_type)
                      invoices == InvoicesOfPass(p, invoices_type)
                      all == AllSteps(Len(invoices))
                  IN  /\ Len(steps) <= Len(all)
                      /\ \A k \in 1..Len(steps) : StepRank(steps[k]) = all[k]
                      /\ \A k \in 4..Len(steps) :
                            steps[k].op = "mark_paid" =>
                                steps[k].invoice_id = invoices[k - 3]["id"]
                      /\ \A k \in 1..Len(invoices) :
                            invoices[k]["id"] \in alma_paid =>
                                /\ Len(steps) >= 3 + k
                                /\ steps[1].file = "data"
                                /\ steps[2].file = "control"
                                /\ steps[3].op = "ssm_put"
            /\ (pc[p] = "failed" /\ cmd[p].exception = "SSHException") =>
                  LET steps == StepsOfPass(p, frame[p].invoices_type)
                  IN  /\ Len(steps) <= 1
                      /\ \A k \in 1..Len(frame[p].invoices) :
                            frame[p].invoices[k]["id"] \notin alma_paid
                      /\ frame[p].invoices_type = monograph =>
                            ssm_parameter = cmd[p].sap_sequence_parameter)
    /\ [][\A p \in Procs : pc[p] = "failed" =>
            /\ trace'[p] = trace[p]
            /\ alma_paid' = alma_paid
            /\ ssm_parameter' = ssm_parameter]_vars

\* a pass went through all its steps and paid an invoice, and the pass after
\* it failed at the transmission of its control file
C25_Witness ==
    \E p \in Procs :
        /\ cmd[p].final_run /\ cmd[p].real_run
        /\ Len(cmd[p].monograph_invoices) = 1
        /\ Len(StepsOfPass(p, monograph)) = 5
        /\ cmd[p].monograph_invoices[1]["id"] \in alma_paid
        /\ pc[p] = "failed"
        /\ cmd[p].exception = "SSHException"
        /\ Len(StepsOfPass(p, serial)) = 1

(***************************************************************************)
(* The end of a call of get_paged.                                          *)
(***************************************************************************)
\* C26 as stated: whatever the sizes of the pages upstream serves, every call
\* of get_paged comes to its end: after finitely many page requests the
\* generator is exhausted, having yielded finitely many records.
C26_EveryCallEnds == <>(paged.g.done)

\* what holds of every call instead: it goes on requesting for as long as
\* the records it has retrieved are fewer than the total count, and nothing
\* but the recursion limit ends a call that upstream never serves enough
\* records
NoEndBelowTotal ==
    /\ paged.g.done => paged.g.records_retrieved >= Len(paged.held)
    /\ paged.g.err # "none" =>
          /\ paged.g.records_retrieved < Len(paged.held)
          /\ Len(paged.g.requests) = MaxRequests

\* a call with limit 2 against an upstream that holds two records and served
\* one of them on the first page has been ended by the recursion limit
ShortPageNeverEnds ==
    /\ paged.g.limit = 2
    /\ Len(paged.held) = 2
    /\ paged.g.err = "RecursionError"
    /\ Len(paged.g.yielded) = 1

(***************************************************************************)
(* The sequence numbers of successive invocations.                          *)
(***************************************************************************)
\* generate_next_sap_sequence_number accepts the stored parameter
Accepted(parameter) == generate_next_sap_sequence_number(parameter).err = "none"

\* C27 as stated: when a final, real invocation that started from an accepted
\* stored value has completed, the value it leaves in the parameter store is
\* accepted again, and the invocation after it does not fail with a
\* sequence-format error.
C27_StoredSequenceStaysValid ==
    (pc[1] = "done" /\ Accepted(cmd[1].sap_sequence_parameter)) =>
        /\ Accepted(ssm_parameter)
        /\ cmd[2].exception # "SapSequenceError"

\* the sequence number in the name of a transmitted file: what stands
\* between the first and the second point of dropbox/dlibsapg.<n>.<date>
SequenceNumberOf(entry) == Split(entry.path, ".")[2]

\* the sequence numbers of the files invocation p has transmitted
TransmittedBy(p) ==
    {SequenceNumberOf(trace[p][k]) :
        k \in {i \in 1..Len(trace[p]) : trace[p][i].op = "sftp_put"}}

\* C28 as stated: of two successive final, real invocations no sequence
\* number is in the name of a file transmitted by the first and of a file
\* transmitted by the second, whether the first completed or stopped with an
\* error.
C28_NoSequenceNumberReused ==
    (cmd[2].final_run /\ cmd[2].real_run) =>
        TransmittedBy(1) \cap TransmittedBy(2) = {}

(***************************************************************************)
(* The clean invoices in generate_sap_data.                                 *)
(***************************************************************************)
\* C29 as stated: generate_sap_data renders every invoice that
\* parse_invoice_records has placed in the clean collection, whatever the
\* number of address lines of its vendor, and no pass fails while its data
\* file is generated.
C29_CleanInvoiceRenders ==
    \A p \in Procs :
        /\ \A k \in 1..Len(cmd[p].parsed_invoices) :
              generate_sap_data(cmd[p].today,
                                <<cmd[p].parsed_invoices[k]>>).err = "none"
        /\ cmd[p].exception # "IndexError"

(***************************************************************************)
(* The problem invoices in run.                                             *)
(***************************************************************************)
\* the sequence number invocation p gives to the pass of one type
SequenceNumberOfPass(p, invoices_type) ==
    IF invoices_type = monograph THEN cmd[p].monograph_sequence_number
    ELSE cmd[p].serial_sequence_number

\* what the pass of one type sends and returns when it is carried out in
\* full, made from its invoices, its sequence number and the date alone
EffectsWithoutProblems(p, invoices_type) ==
    LET invoices == InvoicesOfPass(p, invoices_type)
        sequence_number == SequenceNumberOfPass(p, invoices_type)
        eligible(invoice) == invoice["payment method"] = ACCOUNTINGDEPARTMENT
        sap_invoices == SelectSeq(invoices, eligible)
        names == generate_sap_file_names(sequence_number, cmd[p].today)
        data == generate_sap_data(cmd[p].today, sap_invoices)
    IN  [data_path |-> <<"dropbox/">> \o names[1],
         data |-> data,
         control_path |-> <<"dropbox/">> \o names[2],
         total |-> calculate_invoices_total_amount(sap_invoices),
         stored |-> update_sap_sequence(sequence_number, cmd[p].today,
                                        SequenceType(invoices_type)),
         summary |-> generate_summary(<< >>, invoices, names[1], names[2]),
         counts |-> [invoices_type |-> invoices_type,
                     total_invoices |-> Len(invoices),
                     sap_invoices |-> Len(sap_invoices),
                     other_invoices |-> Len(invoices) - Len(sap_invoices)]]

\* C30: what a pass of run sends and returns is made from its invoices, its
\* sequence number and the date, whatever the problem invoices are: the
\* names and contents of the files transmitted, the sequence value
\* persisted, the invoices marked paid and the counts returned.  The problem
\* invoices appear in the warning of the summary only, and there in full,
\* not split by type, in the monograph and in the serial pass alike.  A
\* final, real invocation that has ended has carried out each pass in full,
\* with or without problem invoices.
C30_ProblemsChangeOnlySummary ==
    \A p \in Procs :
        /\ \A k \in 1..Len(trace[p]) :
              LET entry == trace[p][k]
                  effects == EffectsWithoutProblems(p, entry.pass)
              IN  /\ (entry.op = "sftp_put" /\ entry.file = "data") =>
                        /\ entry.path = effects.data_path
                        /\ entry.contents = effects.data.lines
                  /\ (entry.op = "sftp_put" /\ entry.file = "control") =>
                        /\ entry.path = effects.control_path
                        /\ entry.contents
                               = generate_sap_control(effects.data.lines,
                                                      effects.total)
                  /\ entry.op = "ssm_put" => entry.value = effects.stored
                  /\ entry.op = "mark_paid" =>
                        \E i \in 1..Len(InvoicesOfPass(p, entry.pass)) :
                            InvoicesOfPass(p, entry.pass)[i]["id"]
                                = entry.invoice_id
                  /\ entry.op = "email" =>
                        /\ \A field \in (DOMAIN entry.body) \ {"warning"} :
                              entry.body[field] = effects.summary[field]
                        /\ Len(entry.body.warning) = Len(cmd[p].problem_invoices)
                        /\ \A i \in 1..Len(entry.body.warning) :
                              entry.body.warning[i].invoice
                                  = cmd[p].problem_invoices[i]["id"]
        /\ \A k \in 1..Len(cmd[p].results) :
              cmd[p].results[k]
                  = EffectsWithoutProblems(p, cmd[p].results[k].invoices_type).counts
        /\ (pc[p] = "done" /\ cmd[p].final_run /\ cmd[p].real_run) =>
              \A invoices_type \in {monograph, serial} :
                  LET steps == StepsOfPass(p, invoices_type)
                  IN  [k \in 1..Len(steps) |-> StepRank(steps[k])]
                          = AllSteps(Len(InvoicesOfPass(p, invoices_type)))

\* a final, real invocation with a problem invoice has ended: it transmitted
\* the files of its monograph invoice, marked it paid and sent both e-mails
\* with the warning
C30_Witness ==
    \E p \in Procs :
        /\ pc[p] = "done"
        /\ cmd[p].final_run /\ cmd[p].real_run
        /\ Len(cmd[p].problem_invoices) = 1
        /\ Len(cmd[p].monograph_invoices) = 1
        /\ Len(StepsOfPass(p, monograph)) = 5
        /\ Len(StepsOfPass(p, serial)) = 4
        /\ \A k \in 1..Len(trace[p]) :
              trace[p][k].op = "email" => Len(trace[p][k].body.warning) = 1

====
